---- MODULE Spec2Model ----
(***************************************************************************)
(* A model of gfluent's fluent builders: the BigQuery builder, class BQ of  *)
(* gfluent/bq.py, the object-store builder, class GCS of gfluent/gcs.py,   *)
(* and the setters of the spreadsheet loader, class Sheet of               *)
(* gfluent/sheet.py.  Each class has its own specification; the variables  *)
(* of the other classes stay at their initial values in it.                *)
(*                                                                         *)
(* Python values are records [ty, s, l]: ty is the Python type name, s the *)
(* characters of a str (a sequence of one-character strings), l the        *)
(* entries of a list.  An attribute that is absent from an object's        *)
(* __dict__ is the value Unset.                                            *)
(***************************************************************************)
EXTENDS Integers, Sequences, FiniteSets, TLC

VARIABLES
    bq,      \* the BQ object's __dict__ (without the SDK client handle)
    alive,   \* TRUE when the constructor returned an object
    last,    \* the most recent call on the object: [op, arg, kw]
    ret,     \* how that call ended: [exc, ty, n]
    calls,   \* the calls that call made on the SDK client, in order
    gcs,     \* the GCS object's __dict__ (without the SDK client handle)
    fs,      \* the local file system: the entries of its directories
    sheet    \* the Sheet object's __dict__ (without the service handle)

vars == <<bq, alive, last, ret, calls, gcs, fs, sheet>>

\* ------------------------------------------------------------ bounds

\* Largest row count the warehouse reports for a table or a job.
MaxRows == 2
\* Largest number of keyword arguments given to the constructor.
MaxKwargs == 2
\* Largest number of objects a listing of the bucket returns.
MaxBlobs == 2

\* ------------------------------------------------------ Python values

StrV(chars) == [ty |-> "str", s |-> chars, l |-> <<>>]
ListV(items) == [ty |-> "list", s |-> <<>>, l |-> items]
NoneV == [ty |-> "NoneType", s |-> <<>>, l |-> <<>>]
IntV == [ty |-> "int", s |-> <<"5">>, l |-> <<>>]
Unset == [ty |-> "unset", s |-> <<>>, l |-> <<>>]

\* "_x" in self.__dict__
IsSet(v) == v.ty # "unset"

\* isinstance(v, str)
IsStr(v) == v.ty = "str"

\* The __dict__ of a GCS and of a Sheet that were not constructed.
NoGCS ==
    [_project |-> Unset, _local |-> Unset, _local_files |-> Unset,
     _bucket |-> Unset, _prefix |-> Unset]
NoSheet ==
    [_sheet_id |-> Unset, _worksheet |-> Unset, _range |-> Unset,
     _schema |-> Unset, _bq |-> Unset, _json_to_be_load |-> Unset]

\* ---------------------------------------------------- str operations

LowerCase == <<"a","b","c","d","e","f","g","h","i","j","k","l","m",
               "n","o","p","q","r","s","t","u","v","w","x","y","z">>
UpperCase == <<"A","B","C","D","E","F","G","H","I","J","K","L","M",
               "N","O","P","Q","R","S","T","U","V","W","X","Y","Z">>

UpperChar(c) ==
    IF \E i \in 1..Len(LowerCase) : LowerCase[i] = c
    THEN UpperCase[CHOOSE i \in 1..Len(LowerCase) : LowerCase[i] = c]
    ELSE c

\* str.upper()
Upper(s) == [i \in 1..Len(s) |-> UpperChar(s[i])]

IsSpace(c) == c \in {" ", "\t", "\n", "\r", "\f"}

RECURSIVE LStrip(_)
LStrip(s) ==
    IF s = <<>> THEN s
    ELSE IF IsSpace(Head(s)) THEN LStrip(Tail(s)) ELSE s

RECURSIVE RStrip(_)
RStrip(s) ==
    IF s = <<>> THEN s
    ELSE IF IsSpace(s[Len(s)]) THEN RStrip(SubSeq(s, 1, Len(s) - 1)) ELSE s

\* str.lstrip() in the place of str.strip()
Strip_LeftOnly(s) == LStrip(s)

\* str.strip()
Strip(s) == RStrip(LStrip(s))

\* str.startswith(prefix)
StartsWith(s, prefix) ==
    /\ Len(s) >= Len(prefix)
    /\ SubSeq(s, 1, Len(prefix)) = prefix

\* c in s, for a one-character c
Contains(s, c) == \E i \in 1..Len(s) : s[i] = c

\* ------------------------------------------------------ str literals

\* The str literals of the code and of the inputs below, by name.
Lit ==
    [S_SELECT |->
         <<"S", "E", "L", "E", "C", "T">>,
     S_TRUNCATE_TABLE |->
         <<"T", "R", "U", "N", "C", "A", "T", "E", " ",
           "T", "A", "B", "L", "E", " ">>,
     S_WITH |->
         <<"W", "I", "T", "H">>,
     S_DELETE |->
         <<"D", "E", "L", "E", "T", "E">>,
     S_gs |->
         <<"g", "s", ":", "/", "/">>,
     S_US |->
         <<"U", "S">>,
     S_EU |->
         <<"E", "U">>,
     S_WRITE_EMPTY |->
         <<"W", "R", "I", "T", "E", "_", "E", "M", "P", "T", "Y">>,
     S_WRITE_TRUNCATE |->
         <<"W", "R", "I", "T", "E", "_", "T", "R", "U", "N", "C",
           "A", "T", "E">>,
     S_WRITE_APPEND |->
         <<"W", "R", "I", "T", "E", "_", "A", "P", "P", "E", "N",
           "D">>,
     S_CREATE_NEVER |->
         <<"C", "R", "E", "A", "T", "E", "_", "N", "E", "V", "E",
           "R">>,
     S_CREATE_IF_NEEDED |->
         <<"C", "R", "E", "A", "T", "E", "_", "I", "F", "_", "N",
           "E", "E", "D", "E", "D">>,
     S_NEWLINE_DELIMITED_JSON |->
         <<"N", "E", "W", "L", "I", "N", "E", "_", "D", "E", "L",
           "I", "M", "I", "T", "E", "D", "_", "J", "S", "O", "N">>,
     S_CSV |->
         <<"C", "S", "V">>,
     S_AVRO |->
         <<"A", "V", "R", "O">>,
     S_DATASTORE_BACKUP |->
         <<"D", "A", "T", "A", "S", "T", "O", "R", "E", "_", "B",
           "A", "C", "K", "U", "P">>,
     S_ORC |->
         <<"O", "R", "C">>,
     S_PARQUET |->
         <<"P", "A", "R", "Q", "U", "E", "T">>,
     d |-> <<"d">>,
     d_slash |-> <<"d","/">>,
     d_a_json |-> <<"d","/","a",".","j","s","o","n">>,
     d_s_json |-> <<"d","/","s",".","j","s","o","n">>,
     x |-> <<"x">>,
     a_json |-> <<"a",".","j","s","o","n">>,
     c_csv |-> <<"c",".","c","s","v">>,
     s_json |-> <<"s",".","j","s","o","n">>,
     json |-> <<"j","s","o","n">>,
     b |-> <<"b">>,
     gs_b |-> <<"g","s",":","/","/","b">>,
     gs_gs_b |-> <<"g","s",":","/","/","g","s",":","/","/","b">>,
     how_are_you |-> <<"h","o","w","/","a","r","e","/","y","o","u">>,
     p_slash |-> <<"p","/">>,
     p_a_json |-> <<"p","/","a",".","j","s","o","n">>,
     p_s_slash |-> <<"p","/","s","/">>,
     p_s_a_json |-> <<"p","/","s","/","a",".","j","s","o","n">>,
     key |-> <<"k","e","y",".","j","s","o","n">>,
     id44 |-> <<"1","T","p","v","i","E","r","g","A","8","x","i","y","C","a",
                "Y","0","i","O","I","N","1","X","f","K","0","Q","I","m","4",
                "v","c","T","u","l","m","t","o","w","a","C","7","N","M">>,
     not_a_valid_sheet |-> <<"n","o","t","-","a","-","v","a","l","i","d",
                             "-","s","h","e","e","t">>,
     docs |-> <<"h","t","t","p","s",":","/","/","d","o","c","s",".",
                "g","o","o","g","l","e",".","c","o","m">>,
     spreadsheets_d |-> <<"/","s","p","r","e","a","d","s","h","e","e","t",
                          "s","/","d","/">>,
     edit |-> <<"/","e","d","i","t","#","g","i","d","=","1","9">>,
     my_name |-> <<"m","y","_","n","a","m","e">>,
     sheet_name_A1_B100 |-> <<"s","h","e","e","t","_","n","a","m","e","!",
                              "A","1",":","B","1","0","0">>,
     A1_B1 |-> <<"A","1",":","B","1">>,
     name |-> <<"n","a","m","e">>,
     age |-> <<"a","g","e">>,
     bad1 |-> <<"1","b","a","d">>]

\* The keys of BQ.__required_setting.
RequiredSetting ==
    {"table", "gcs", "sql", "schema", "mode", "create_mode", "format"}

\* The file formats BQ.format's docstring lists.
SupportedFormats ==
    {Lit.S_AVRO, Lit.S_CSV, Lit.S_DATASTORE_BACKUP, Lit.S_NEWLINE_DELIMITED_JSON, Lit.S_ORC,
     Lit.S_PARQUET}

\* _allowed of BQ.mode and of BQ.create_mode.
AllowedModes == {Lit.S_WRITE_EMPTY, Lit.S_WRITE_TRUNCATE, Lit.S_WRITE_APPEND}
AllowedCreateModes == {Lit.S_CREATE_NEVER, Lit.S_CREATE_IF_NEEDED}

\* -------------------------------------------------------- BQ setters
\* A setter yields [b, exc]: the object's __dict__ after the call and the
\* exception it raised ("none" when it returned self).

Returned(b) == [b |-> b, exc |-> "none"]
Raised(b, exc) == [b |-> b, exc |-> exc]

\* BQ.table leaving out the project of the fully-qualified id.
BQ_table_NoProject(b, table) ==
    IF ~IsStr(table) \/ ~Contains(table.s, ".")
    THEN Raised(b, "ValueError")
    ELSE Returned([b EXCEPT !._table = table, !.__table_id = table])

BQ_table(b, table) ==
    IF ~IsStr(table) \/ ~Contains(table.s, ".")
    THEN Raised(b, "ValueError")
    ELSE Returned([b EXCEPT
            !._table = table,
            !.__table_id = StrV(b._project.s \o <<".">> \o table.s)])

BQ_format(b, format_) == Returned([b EXCEPT !._format = format_])

BQ_gcs(b, gcs_) ==
    IF ~IsStr(gcs_) \/ ~StartsWith(gcs_.s, Lit.S_gs)
    THEN Raised(b, "ValueError")
    ELSE Returned([b EXCEPT !._gcs = gcs_])

\* BQ.sql letting DELETE statements through as well.
BQ_sql_AllowDelete(b, sql) ==
    IF ~IsStr(sql)
       \/ (/\ ~StartsWith(Upper(Strip(sql.s)), Lit.S_SELECT)
           /\ ~StartsWith(Upper(Strip(sql.s)), Lit.S_WITH)
           /\ ~StartsWith(Upper(Strip(sql.s)), Lit.S_DELETE))
    THEN Raised(b, "ValueError")
    ELSE Returned([b EXCEPT !._sql = sql])

BQ_sql(b, sql) ==
    IF ~IsStr(sql)
       \/ (/\ ~StartsWith(Upper(Strip(sql.s)), Lit.S_SELECT)
           /\ ~StartsWith(Upper(Strip(sql.s)), Lit.S_WITH))
    THEN Raised(b, "ValueError")
    ELSE Returned([b EXCEPT !._sql = sql])

BQ_schema(b, schema) ==
    IF schema.ty # "list"
    THEN Raised(b, "TypeError")
    ELSE Returned([b EXCEPT !._schema = schema])

\* BQ.mode checking the type only.
BQ_mode_TypeOnly(b, mode) ==
    IF ~IsStr(mode)
    THEN Raised(b, "ValueError")
    ELSE Returned([b EXCEPT !._mode = mode])

BQ_mode(b, mode) ==
    IF ~IsStr(mode) \/ mode.s \notin AllowedModes
    THEN Raised(b, "ValueError")
    ELSE Returned([b EXCEPT !._mode = mode])

BQ_create_mode(b, create_mode) ==
    IF ~IsStr(create_mode) \/ create_mode.s \notin AllowedCreateModes
    THEN Raised(b, "ValueError")
    ELSE Returned([b EXCEPT !._create_mode = create_mode])

\* The assignment __init__ keeps in a comment instead of the setter call:
\* setattr(self, f"_{attr}", kwargs[attr])
Dispatch_Setattr(b, attr, value) ==
    Returned(CASE attr = "table" -> [b EXCEPT !._table = value]
               [] attr = "format" -> [b EXCEPT !._format = value]
               [] attr = "gcs" -> [b EXCEPT !._gcs = value]
               [] attr = "sql" -> [b EXCEPT !._sql = value]
               [] attr = "schema" -> [b EXCEPT !._schema = value]
               [] attr = "mode" -> [b EXCEPT !._mode = value]
               [] attr = "create_mode" -> [b EXCEPT !._create_mode = value])

\* getattr(self, attr)(value)
Dispatch(b, attr, value) ==
    CASE attr = "table" -> BQ_table(b, value)
      [] attr = "format" -> BQ_format(b, value)
      [] attr = "gcs" -> BQ_gcs(b, value)
      [] attr = "sql" -> BQ_sql(b, value)
      [] attr = "schema" -> BQ_schema(b, value)
      [] attr = "mode" -> BQ_mode(b, value)
      [] attr = "create_mode" -> BQ_create_mode(b, value)

\* ---------------------------------------------------- BQ constructor

\* No object: what the name is bound to when the constructor raised.
NoObject ==
    [_project |-> Unset, _table |-> Unset, __table_id |-> Unset,
     _format |-> Unset, _gcs |-> Unset, _sql |-> Unset, _schema |-> Unset,
     _mode |-> Unset, _create_mode |-> Unset]

\* The attributes __init__ sets before it reads kwargs.
Defaults(project) ==
    [NoObject EXCEPT
        !._project = project,
        !._mode = StrV(Lit.S_WRITE_APPEND),
        !._create_mode = StrV(Lit.S_CREATE_IF_NEEDED),
        !._format = StrV(Lit.S_NEWLINE_DELIMITED_JSON)]

\* for attr in kwargs: ... , from the i-th keyword argument on
RECURSIVE InitKwargs(_, _, _)
InitKwargs(b, kwargs, i) ==
    IF i > Len(kwargs) THEN Returned(b)
    ELSE IF kwargs[i].k \in RequiredSetting
    THEN LET r == Dispatch(b, kwargs[i].k, kwargs[i].v)
         IN IF r.exc # "none" THEN r ELSE InitKwargs(r.b, kwargs, i + 1)
    ELSE InitKwargs(b, kwargs, i + 1)

BQ_init(project, kwargs) ==
    IF ~IsStr(project)
    THEN Raised(NoObject, "ValueError")
    ELSE LET r == InitKwargs(Defaults(project), kwargs, 1)
         IN IF r.exc # "none" THEN Raised(NoObject, r.exc) ELSE r


\* ------------------------------------------- the bigquery client's side
\* A call on the client or on a job: [op, arg, table, location, job_config,
\* out, raises, exc, not_found_ok].  out is the row count the call reports,
\* exc the exception it raises.

\* No job_config argument.
NoJobConfig ==
    [kind |-> "none", destination |-> NoneV, write_disposition |-> NoneV,
     create_disposition |-> NoneV, autodetect |-> FALSE, schema |-> NoneV,
     source_format |-> NoneV]

\* bigquery.QueryJobConfig(destination=, write_disposition=, create_disposition=)
QueryJobConfig(destination, write_disposition, create_disposition) ==
    [NoJobConfig EXCEPT
        !.kind = "QueryJobConfig",
        !.destination = destination,
        !.write_disposition = write_disposition,
        !.create_disposition = create_disposition]

\* bigquery.LoadJobConfig(autodetect=True, source_format=)
LoadJobConfigAutodetect(source_format) ==
    [NoJobConfig EXCEPT
        !.kind = "LoadJobConfig",
        !.autodetect = TRUE,
        !.source_format = source_format]

\* bigquery.LoadJobConfig(schema=, source_format=)
LoadJobConfigSchema(schema, source_format) ==
    [NoJobConfig EXCEPT
        !.kind = "LoadJobConfig",
        !.schema = schema,
        !.source_format = source_format]

ClientCall(op, arg, table, location, job_config, out, raises) ==
    [op |-> op, arg |-> arg, table |-> table, location |-> location,
     job_config |-> job_config, out |-> out, raises |-> raises,
     exc |-> IF raises THEN "GoogleAPIError" ELSE "none",
     not_found_ok |-> FALSE]

\* self._client.query(sql) and self._client.query(sql, job_config=job_config)
ClientQuery(sql, job_config) ==
    ClientCall("query", sql, NoneV, NoneV, job_config, 0, FALSE)

\* job.result(): the job ends well, reporting n rows, or raises
JobResult(ok, n) ==
    ClientCall("result", NoneV, NoneV, NoneV, NoJobConfig,
               IF ok THEN n ELSE 0, ~ok)

\* self._client.load_table_from_uri(gcs, table_id, location=, job_config=)
ClientLoadTableFromUri(gcs_, table_id, location, job_config) ==
    ClientCall("load_table_from_uri", gcs_, table_id, location, job_config,
               0, FALSE)

\* self._client.get_table(table_id), whose num_rows is n
ClientGetTable(table_id, n) ==
    ClientCall("get_table", NoneV, table_id, NoneV, NoJobConfig, n, FALSE)

\* self._client.get_table(table_id) raising NotFound
ClientGetTableNotFound(table_id) ==
    [ClientCall("get_table", NoneV, table_id, NoneV, NoJobConfig, 0, TRUE)
        EXCEPT !.exc = "NotFound"]

\* self._client.get_table(table_id) raising another error of the service
ClientGetTableError(table_id) ==
    ClientCall("get_table", NoneV, table_id, NoneV, NoJobConfig, 0, TRUE)

\* self._client.delete_table(table_id, not_found_ok=): the service raises
\* NotFound for a table that does not exist unless not_found_ok is given;
\* out is the number of tables deleted.
ClientDeleteTable(table_id, not_found_ok, exists) ==
    [ClientCall("delete_table", NoneV, table_id, NoneV, NoJobConfig,
                IF exists THEN 1 ELSE 0, ~exists /\ ~not_found_ok)
        EXCEPT !.not_found_ok = not_found_ok,
               !.exc = IF ~exists /\ ~not_found_ok THEN "NotFound" ELSE "none"]

\* What the service makes of a load of `loaded` rows into a table that
\* held `before` rows, by the write disposition of the job configuration
\* it was sent: the job fails (-1) or the table's new row count.  A
\* configuration without a write disposition appends.
RowsAfterLoad(write_disposition, before, loaded) ==
    CASE write_disposition = StrV(Lit.S_WRITE_EMPTY) ->
             IF before > 0 THEN -1 ELSE loaded
      [] write_disposition = StrV(Lit.S_WRITE_TRUNCATE) -> loaded
      [] OTHER -> before + loaded

\* -------------------------------------------------------- BQ actions
\* An action yields [ret, calls]: how the call ended ([exc, ty, n]) and the
\* calls it made on the client.

Return(ty, n) == [exc |-> "none", ty |-> ty, n |-> n, msg |-> NoneV]
Raise(exc) == [exc |-> exc, ty |-> "NoneType", n |-> 0, msg |-> NoneV]

Outcome(r, cs) == [ret |-> r, calls |-> cs]

\* BQ._query, with the job ending as (ok, n)
BQ__query(b, ok, n) ==
    IF ~IsSet(b._sql)
    THEN Outcome(Raise("AttributeError"), <<>>)
    ELSE Outcome(IF ok THEN Return("RowIterator", n)
                       ELSE Raise("GoogleAPIError"),
                 <<ClientQuery(b._sql, NoJobConfig), JobResult(ok, n)>>)

\* BQ._query_load, with the job ending as (ok, n)
BQ__query_load(b, ok, n) ==
    LET job_config ==
            QueryJobConfig(b.__table_id, b._mode, b._create_mode)
    IN IF ~IsSet(b._sql)
       THEN Outcome(Raise("AttributeError"), <<>>)
       ELSE Outcome(IF ok THEN Return("int", n)
                          ELSE Raise("GoogleAPIError"),
                    <<ClientQuery(b._sql, job_config), JobResult(ok, n)>>)

\* BQ.query choosing its branch on the source URI as load() does.
BQ_query_ByGcs(b, ok, n) ==
    IF IsSet(b._table) /\ IsSet(b._gcs)
    THEN BQ__query_load(b, ok, n)
    ELSE BQ__query(b, ok, n)

BQ_query(b, ok, n) ==
    IF IsSet(b._table)
    THEN BQ__query_load(b, ok, n)
    ELSE BQ__query(b, ok, n)

\* BQ.load's guard relaxed to fail only when both attributes are missing.
BQ_load_unconfigured_Both(b) == ~IsSet(b._table) /\ ~IsSet(b._gcs)

\* BQ.load's guard: .table() and .gcs() must be called before run
BQ_load_unconfigured(b) == ~IsSet(b._table) \/ ~IsSet(b._gcs)

\* BQ.load's job configuration with the two branches swapped.
BQ_load_job_config_Swapped(b) ==
    IF IsSet(b._schema)
    THEN LoadJobConfigAutodetect(b._format)
    ELSE LoadJobConfigSchema(b._schema, b._format)

\* BQ.load's job configuration
BQ_load_job_config(b) ==
    IF ~IsSet(b._schema)
    THEN LoadJobConfigAutodetect(b._format)
    ELSE LoadJobConfigSchema(b._schema, b._format)

\* BQ.load counting the destination's rows before the job too, unless the
\* mode is WRITE_EMPTY, and returning the difference.
BQ_load_RowsAdded(b, location, ok, before, loaded) ==
    IF BQ_load_unconfigured(b)
    THEN Outcome(Raise("ValueError"), <<>>)
    ELSE LET after == RowsAfterLoad(BQ_load_job_config(b).write_disposition,
                                    before, loaded)
             done == ok /\ after >= 0
             count == IF b._mode.s = Lit.S_WRITE_EMPTY
                      THEN <<>>
                      ELSE <<ClientGetTable(b.__table_id, before)>>
             submit == ClientLoadTableFromUri(b._gcs, b.__table_id,
                                              location, BQ_load_job_config(b))
         IN IF ~done
            THEN Outcome(Raise("GoogleAPIError"),
                         count \o <<submit, JobResult(FALSE, 0)>>)
            ELSE Outcome(Return("int", IF b._mode.s = Lit.S_WRITE_EMPTY
                                       THEN after ELSE after - before),
                         count \o <<submit, JobResult(TRUE, loaded),
                                    ClientGetTable(b.__table_id, after)>>)

\* BQ.load(location), the destination holding `before` rows and the job
\* reading `loaded` rows, ok telling whether the service accepts the job.
\* The job configuration carries no write disposition: _mode is not sent.
BQ_load(b, location, ok, before, loaded) ==
    IF BQ_load_unconfigured(b)
    THEN Outcome(Raise("ValueError"), <<>>)
    ELSE LET after == RowsAfterLoad(BQ_load_job_config(b).write_disposition,
                                    before, loaded)
             done == ok /\ after >= 0
             submit == ClientLoadTableFromUri(b._gcs, b.__table_id,
                                              location, BQ_load_job_config(b))
         IN IF ~done
            THEN Outcome(Raise("GoogleAPIError"),
                         <<submit, JobResult(FALSE, 0)>>)
            ELSE Outcome(Return("int", after),
                         <<submit, JobResult(TRUE, loaded),
                           ClientGetTable(b.__table_id, after)>>)

\* BQ.is_exist letting NotFound through instead of catching it.
BQ_is_exist_Uncaught(b, found) ==
    IF ~IsSet(b._table)
    THEN Outcome(Raise("ValueError"), <<>>)
    ELSE CASE found = "found" ->
                  Outcome(Return("bool", 1), <<ClientGetTable(b.__table_id, 0)>>)
           [] found = "NotFound" ->
                  Outcome(Raise("NotFound"),
                          <<ClientGetTableNotFound(b.__table_id)>>)
           [] found = "error" ->
                  Outcome(Raise("GoogleAPIError"),
                          <<ClientGetTableError(b.__table_id)>>)

\* BQ.is_exist(), the service answering get_table as found tells: "found",
\* "NotFound" or "error" (any other exception).  Returns the bool flag as
\* 1 or 0.
BQ_is_exist(b, found) ==
    IF ~IsSet(b._table)
    THEN Outcome(Raise("ValueError"), <<>>)
    ELSE CASE found = "found" ->
                  Outcome(Return("bool", 1), <<ClientGetTable(b.__table_id, 0)>>)
           [] found = "NotFound" ->
                  Outcome(Return("bool", 0),
                          <<ClientGetTableNotFound(b.__table_id)>>)
           [] found = "error" ->
                  Outcome(Raise("GoogleAPIError"),
                          <<ClientGetTableError(b.__table_id)>>)

\* BQ.delete without the not_found_ok flag.
BQ_delete_Strict(b, exists) ==
    IF ~IsSet(b._table)
    THEN Outcome(Raise("ValueError"), <<>>)
    ELSE LET c == ClientDeleteTable(b.__table_id, FALSE, exists)
         IN Outcome(IF c.raises THEN Raise(c.exc) ELSE Return("NoneType", 0),
                    <<c>>)

\* BQ.delete(), exists telling whether the service has the table
BQ_delete(b, exists) ==
    IF ~IsSet(b._table)
    THEN Outcome(Raise("ValueError"), <<>>)
    ELSE LET c == ClientDeleteTable(b.__table_id, TRUE, exists)
         IN Outcome(IF c.raises THEN Raise(c.exc) ELSE Return("NoneType", 0),
                    <<c>>)

\* BQ.drop()
BQ_drop(b, exists) == BQ_delete(b, exists)

\* BQ.truncate(), with the job ending as ok
BQ_truncate(b, ok) ==
    IF ~IsSet(b._table)
    THEN Outcome(Raise("ValueError"), <<>>)
    ELSE Outcome(IF ok THEN Return("NoneType", 0)
                       ELSE Raise("GoogleAPIError"),
                 <<ClientQuery(StrV(Lit.S_TRUNCATE_TABLE \o b.__table_id.s),
                               NoJobConfig),
                   JobResult(ok, 0)>>)

\* self._client.create_dataset(ds_ref, timeout=), ds_ref being
\* bigquery.Dataset(dataset_id) with its location set; the service raises
\* Conflict for a dataset that exists.
ClientCreateDataset(dataset_id, location, timeout, exists) ==
    [op |-> "create_dataset", dataset_id |-> dataset_id,
     location |-> location, timeout |-> timeout, raises |-> exists,
     exc |-> IF exists THEN "Conflict" ELSE "none"]

\* self._client.delete_dataset(dataset_id, delete_contents=, not_found_ok=):
\* the service raises NotFound for a dataset that does not exist unless
\* not_found_ok is given; out is the number of datasets deleted.
ClientDeleteDataset(dataset_id, delete_contents, not_found_ok, exists) ==
    [op |-> "delete_dataset", dataset_id |-> dataset_id,
     delete_contents |-> delete_contents, not_found_ok |-> not_found_ok,
     out |-> IF exists THEN 1 ELSE 0,
     raises |-> ~exists /\ ~not_found_ok,
     exc |-> IF ~exists /\ ~not_found_ok THEN "NotFound" ELSE "none"]

\* BQ.create_dataset(dataset, location, timeout): the timeout passed on is
\* the literal 30.
BQ_create_dataset(b, dataset, location, timeout, exists) ==
    LET dataset_id == StrV(b._project.s \o <<".">> \o dataset.s)
        c == ClientCreateDataset(dataset_id, location,
                                 [IntV EXCEPT !.s = <<"3", "0">>], exists)
    IN Outcome(IF c.raises THEN Raise(c.exc) ELSE Return("NoneType", 0),
               <<c>>)

\* BQ.delete_dataset(dataset)
BQ_delete_dataset(b, dataset, exists) ==
    LET dataset_id == StrV(b._project.s \o <<".">> \o dataset.s)
        c == ClientDeleteDataset(dataset_id, TRUE, TRUE, exists)
    IN Outcome(IF c.raises THEN Raise(c.exc) ELSE Return("NoneType", 0),
               <<c>>)

\* ------------------------------------------------------------ inputs

\* The arguments given to BQ and to its methods, by parameter.
BQInputs ==
    [project |-> {StrV(<<"p">>), NoneV},
     table |->
        {StrV(<<"d",".","t">>), StrV(<<".">>),
         StrV(<<"n","o","_","d","o","t">>), StrV(<<>>), IntV},
     format |->
        {StrV(Lit.S_CSV), StrV(Lit.S_NEWLINE_DELIMITED_JSON),
         StrV(<<"w","r","o","n","g"," ","f","o","r","m","a","t">>)},
     gcs |->
        {StrV(<<"g","s",":","/","/","b">>),
         StrV(<<"n","o","t","_","a","_","g","c","s","_","p","r","e","f",
                "i","x">>),
         StrV(<<" ","g","s",":","/","/","b">>), NoneV},
     sql |->
        {StrV(<<"s","e","l","e","c","t"," ","1">>),
         StrV(<<" ","\n","W","i","t","h"," ","x">>),
         StrV(<<"i","n","s","e","r","t"," ","i","n","t","o">>),
         StrV(<<"d","e","l","e","t","e"," ","f","r","o","m"," ","s","o",
                "m","e"," ","t","a","b","l","e">>),
         StrV(<<"s","e","l","e","c">>),
         StrV(<<"x"," ","s","e","l","e","c","t">>), IntV},
     schema |->
        {ListV(<<>>), ListV(<<<<"n","a","m","e">>, <<"a","g","e">>>>),
         StrV(<<"n","o","t"," ","a"," ","l","i","s","t">>)},
     mode |->
        {StrV(Lit.S_WRITE_EMPTY), StrV(Lit.S_WRITE_TRUNCATE),
         StrV(Lit.S_WRITE_APPEND),
         StrV(<<"w","r","o","n","g"," ","m","o","d","e">>),
         StrV(<<"w","r","i","t","e","_","a","p","p","e","n","d">>), NoneV},
     create_mode |->
        {StrV(Lit.S_CREATE_NEVER), StrV(Lit.S_CREATE_IF_NEEDED),
         StrV(<<"w","r","o","n","g"," ","m","o","d","e">>), IntV},
     location |-> {StrV(Lit.S_US), StrV(Lit.S_EU)},
     dataset |-> {StrV(<<"d", "s">>), StrV(<<"d">>)},
     timeout |-> {[IntV EXCEPT !.s = <<"3", "0">>], IntV}]

Kw(k, values) == {[k |-> k, v |-> v] : v \in values}

\* The keyword arguments a caller may give, one by one.
KwItems ==
    Kw("table", BQInputs.table) \cup Kw("format", BQInputs.format)
    \cup Kw("gcs", BQInputs.gcs) \cup Kw("sql", BQInputs.sql)
    \cup Kw("schema", BQInputs.schema) \cup Kw("mode", BQInputs.mode)
    \cup Kw("create_mode", BQInputs.create_mode)
    \cup Kw("ignore", {StrV(<<"i","g","n","o","r","e","d">>)})

\* **kwargs: up to MaxKwargs items in the caller's order, no name twice.
KwargSeqs ==
    UNION {{kw \in [1..n -> KwItems] :
               \A i, j \in 1..n : i # j => kw[i].k # kw[j].k} : n \in 0..MaxKwargs}

\* ------------------------------------------------------ state machine

Op(op, arg, kw) == [op |-> op, arg |-> arg, kw |-> kw]

\* bq = BQ(project, **kwargs)
Init ==
    \E project \in BQInputs.project, kwargs \in KwargSeqs :
        LET r == BQ_init(project, kwargs)
        IN /\ bq = r.b
           /\ alive = (r.exc = "none")
           /\ last = Op("__init__", project, kwargs)
           /\ ret = IF r.exc = "none" THEN Return("BQ", 0) ELSE Raise(r.exc)
           /\ calls = <<>>
           /\ gcs = NoGCS
           /\ fs = <<>>
           /\ sheet = NoSheet

\* A setter was called with value and ended as r.
Setter(op, value, r) ==
    /\ alive
    /\ bq' = r.b
    /\ last' = Op(op, value, <<>>)
    /\ ret' = IF r.exc = "none" THEN Return("BQ", 0) ELSE Raise(r.exc)
    /\ calls' = <<>>
    /\ UNCHANGED <<alive, gcs, fs, sheet>>

\* An action was called with value and ended as o.
Action(op, value, o) ==
    /\ alive
    /\ last' = Op(op, value, <<>>)
    /\ ret' = o.ret
    /\ calls' = o.calls
    /\ UNCHANGED <<bq, alive, gcs, fs, sheet>>

Call_BQ_table == \E v \in BQInputs.table : Setter("table", v, BQ_table(bq, v))

Call_BQ_format == \E v \in BQInputs.format : Setter("format", v, BQ_format(bq, v))

Call_BQ_gcs == \E v \in BQInputs.gcs : Setter("gcs", v, BQ_gcs(bq, v))

Call_BQ_sql == \E v \in BQInputs.sql : Setter("sql", v, BQ_sql(bq, v))

Call_BQ_schema == \E v \in BQInputs.schema : Setter("schema", v, BQ_schema(bq, v))

Call_BQ_mode == \E v \in BQInputs.mode : Setter("mode", v, BQ_mode(bq, v))

Call_BQ_create_mode ==
    \E v \in BQInputs.create_mode :
        Setter("create_mode", v, BQ_create_mode(bq, v))

Call_BQ_query ==
    \E ok \in BOOLEAN, n \in 0..MaxRows :
        Action("query", NoneV, BQ_query(bq, ok, n))

Call_BQ_load ==
    \E location \in BQInputs.location, ok \in BOOLEAN,
       before \in 0..MaxRows, loaded \in 0..MaxRows :
        Action("load", location, BQ_load(bq, location, ok, before, loaded))

Call_BQ_is_exist ==
    \E found \in {"found", "NotFound", "error"} :
        Action("is_exist", NoneV, BQ_is_exist(bq, found))

Call_BQ_delete ==
    \E exists \in BOOLEAN : Action("delete", NoneV, BQ_delete(bq, exists))

Call_BQ_drop ==
    \E exists \in BOOLEAN : Action("drop", NoneV, BQ_drop(bq, exists))

Call_BQ_truncate ==
    \E ok \in BOOLEAN : Action("truncate", NoneV, BQ_truncate(bq, ok))

\* location and timeout are the values create_dataset runs with, given by
\* the caller or taken from its defaults "US" and 30.
Call_BQ_create_dataset ==
    \E dataset \in BQInputs.dataset, location \in BQInputs.location,
       timeout \in BQInputs.timeout, exists \in BOOLEAN :
        LET o == BQ_create_dataset(bq, dataset, location, timeout, exists)
        IN /\ alive
           /\ last' = Op("create_dataset", dataset,
                         <<[k |-> "location", v |-> location],
                           [k |-> "timeout", v |-> timeout]>>)
           /\ ret' = o.ret
           /\ calls' = o.calls
           /\ UNCHANGED <<bq, alive, gcs, fs, sheet>>

Call_BQ_delete_dataset ==
    \E dataset \in BQInputs.dataset, exists \in BOOLEAN :
        Action("delete_dataset", dataset,
               BQ_delete_dataset(bq, dataset, exists))

Next ==
    \/ Call_BQ_table
    \/ Call_BQ_format
    \/ Call_BQ_gcs
    \/ Call_BQ_sql
    \/ Call_BQ_schema
    \/ Call_BQ_mode
    \/ Call_BQ_create_mode
    \/ Call_BQ_query
    \/ Call_BQ_load
    \/ Call_BQ_is_exist
    \/ Call_BQ_delete
    \/ Call_BQ_drop
    \/ Call_BQ_truncate
    \/ Call_BQ_create_dataset
    \/ Call_BQ_delete_dataset

Spec == Init /\ [][Next]_vars

\* ------------------------------------- setters called one after another
\* BQ(project) followed by at most MaxKwargs setter calls, none after one
\* that raised and no setter twice; last.kw keeps the calls made so far as
\* (name, value) pairs, an argument no setter is named after included.

InitCtor ==
    \E project \in BQInputs.project :
        LET r == BQ_init(project, <<>>)
        IN /\ bq = r.b
           /\ alive = (r.exc = "none")
           /\ last = Op("__init__", project, <<>>)
           /\ ret = IF r.exc = "none" THEN Return("BQ", 0) ELSE Raise(r.exc)
           /\ calls = <<>>
           /\ gcs = NoGCS
           /\ fs = <<>>
           /\ sheet = NoSheet

\* The next call may be the one named op.
MayCall(op) ==
    /\ alive
    /\ ret.exc = "none"
    /\ Len(last.kw) < MaxKwargs
    /\ \A i \in DOMAIN last.kw : last.kw[i].k # op

\* The setter op was called with value and ended as r.
Then(op, value, r) ==
    /\ MayCall(op)
    /\ bq' = r.b
    /\ last' = Op(op, value, Append(last.kw, [k |-> op, v |-> value]))
    /\ ret' = IF r.exc = "none" THEN Return("BQ", 0) ELSE Raise(r.exc)
    /\ UNCHANGED <<alive, calls, gcs, fs, sheet>>

Then_BQ_table == \E v \in BQInputs.table : Then("table", v, BQ_table(bq, v))

Then_BQ_format == \E v \in BQInputs.format : Then("format", v, BQ_format(bq, v))

Then_BQ_gcs == \E v \in BQInputs.gcs : Then("gcs", v, BQ_gcs(bq, v))

Then_BQ_sql == \E v \in BQInputs.sql : Then("sql", v, BQ_sql(bq, v))

Then_BQ_schema == \E v \in BQInputs.schema : Then("schema", v, BQ_schema(bq, v))

Then_BQ_mode == \E v \in BQInputs.mode : Then("mode", v, BQ_mode(bq, v))

Then_BQ_create_mode ==
    \E v \in BQInputs.create_mode :
        Then("create_mode", v, BQ_create_mode(bq, v))

\* An argument that names no setter: there is nothing to call.
Then_nothing ==
    \E item \in KwItems :
        /\ item.k \notin RequiredSetting
        /\ Then(item.k, item.v, Returned(bq))

NextCtor ==
    \/ Then_BQ_table
    \/ Then_BQ_format
    \/ Then_BQ_gcs
    \/ Then_BQ_sql
    \/ Then_BQ_schema
    \/ Then_BQ_mode
    \/ Then_BQ_create_mode
    \/ Then_nothing

SpecCtor == InitCtor /\ [][NextCtor]_vars

\* ------------------------------------------------------------ paths

\* str.endswith(suffix)
EndsWith(s, suffix) ==
    /\ Len(s) >= Len(suffix)
    /\ SubSeq(s, Len(s) - Len(suffix) + 1, Len(s)) = suffix

\* os.path.join(a, b)
Join(a, b) ==
    IF StartsWith(b, <<"/">>) THEN b
    ELSE IF a = <<>> \/ EndsWith(a, <<"/">>) THEN a \o b
    ELSE a \o <<"/">> \o b

\* os.path.basename(p): what follows the last "/"
RECURSIVE Basename(_)
Basename(p) ==
    IF p = <<>> \/ p[Len(p)] = "/" THEN <<>>
    ELSE Basename(SubSeq(p, 1, Len(p) - 1)) \o <<p[Len(p)]>>

\* What an f-string puts for {v}.
Format(v) ==
    IF v.ty = "NoneType" THEN <<"N","o","n","e">> ELSE v.s

\* if v:
Truthy(v) == ~(v.ty = "NoneType" \/ (v.ty = "str" /\ v.s = <<>>))

\* ------------------------------------------------------ file system
\* The file system is the sequence of its directory entries
\* [dir, name, kind], in the order os.listdir reports them.

Entry(dir, name, kind) == [dir |-> dir, name |-> name, kind |-> kind]

PathOf(e) == Join(e.dir, e.name)

\* os.path.isfile(path)
IsFile(f, path) ==
    \E i \in DOMAIN f : f[i].kind = "file" /\ PathOf(f[i]) = path

\* os.path.isdir(path); a directory is also found with a trailing "/"
IsDir(f, path) ==
    \E i \in DOMAIN f :
        /\ f[i].kind = "dir"
        /\ path \in {PathOf(f[i]), PathOf(f[i]) \o <<"/">>}

\* os.listdir(path) of a directory, as the entries themselves
ListDir(f, path) ==
    LET Inside(e) == path \in {e.dir, e.dir \o <<"/">>}
    IN SelectSeq(f, Inside)

\* ------------------------------------------------------- GCS setters

\* The keys of GCS.__required_setting.
GCSRequiredSetting == {"local", "bucket", "prefix"}

\* [os.path.join(path, x) for x in os.listdir(path) if ... isfile(...)]
LocalFiles(f, path, suffix) ==
    LET Kept(e) ==
            /\ Truthy(suffix) => EndsWith(e.name, suffix.s)
            /\ IsFile(f, Join(path, e.name))
        kept == SelectSeq(ListDir(f, path), Kept)
    IN [i \in 1..Len(kept) |-> StrV(Join(path, kept[i].name))]

\* GCS.local adding the files it finds to the list it already has.
GCS_local_Accumulate(g, f, path, suffix) ==
    LET g1 == [g EXCEPT !._local = path]
        old == IF IsSet(g._local_files) THEN g._local_files.l ELSE <<>>
    IN IF ~IsStr(path) THEN Raised(g1, "TypeError")
       ELSE IF IsFile(f, path.s)
       THEN Returned([g1 EXCEPT !._local_files = ListV(old \o <<path>>)])
       ELSE IF IsDir(f, path.s)
       THEN Returned([g1 EXCEPT !._local_files =
                ListV(old \o LocalFiles(f, path.s, suffix))])
       ELSE Raised(g1, "ValueError")

GCS_local(g, f, path, suffix) ==
    LET g1 == [g EXCEPT !._local = path]
    IN IF ~IsStr(path) THEN Raised(g1, "TypeError")
       ELSE IF IsFile(f, path.s)
       THEN Returned([g1 EXCEPT !._local_files = ListV(<<path>>)])
       ELSE IF IsDir(f, path.s)
       THEN Returned([g1 EXCEPT !._local_files =
                ListV(LocalFiles(f, path.s, suffix))])
       ELSE Raised(g1, "ValueError")

GCS_bucket(g, bucket) ==
    IF ~IsStr(bucket) THEN Raised(g, "AttributeError")
    ELSE IF StartsWith(bucket.s, Lit.S_gs)
    THEN Returned([g EXCEPT
            !._bucket = StrV(SubSeq(bucket.s, 6, Len(bucket.s)))])
    ELSE Returned([g EXCEPT !._bucket = bucket])

GCS_prefix(g, prefix) == Returned([g EXCEPT !._prefix = prefix])

\* getattr(self, attr)(value)
GCSDispatch(g, f, attr, value) ==
    CASE attr = "local" -> GCS_local(g, f, value, NoneV)
      [] attr = "bucket" -> GCS_bucket(g, value)
      [] attr = "prefix" -> GCS_prefix(g, value)

\* for attr in kwargs: ... , from the i-th keyword argument on
RECURSIVE GCSInitKwargs(_, _, _, _)
GCSInitKwargs(g, f, kwargs, i) ==
    IF i > Len(kwargs) THEN Returned(g)
    ELSE IF kwargs[i].k \in GCSRequiredSetting
    THEN LET r == GCSDispatch(g, f, kwargs[i].k, kwargs[i].v)
         IN IF r.exc # "none" THEN Raised(NoGCS, r.exc)
            ELSE GCSInitKwargs(r.b, f, kwargs, i + 1)
    ELSE GCSInitKwargs(g, f, kwargs, i + 1)

GCS_init(f, project, kwargs) ==
    IF ~IsStr(project) THEN Raised(NoGCS, "ValueError")
    ELSE GCSInitKwargs([NoGCS EXCEPT !._project = project], f, kwargs, 1)

\* ------------------------------------------------ storage client side
\* A call on the storage client, on a bucket handle or on a blob handle:
\* name is the bucket or object name, file the local file of a transfer,
\* out the object names a listing returned.

StorageCall(op, name, file, prefix, delimiter, out, raises) ==
    [op |-> op, name |-> name, file |-> file, prefix |-> prefix,
     delimiter |-> delimiter, out |-> out, raises |-> raises]

\* self._client.bucket(self._bucket)
ClientBucket(name) ==
    StorageCall("bucket", name, NoneV, NoneV, NoneV, <<>>, FALSE)

\* bucket.blob(name)
BucketBlob(name) ==
    StorageCall("blob", StrV(name), NoneV, NoneV, NoneV, <<>>, FALSE)

\* blob.upload_from_filename(f)
BlobUploadFromFilename(name, f, raises) ==
    StorageCall("upload_from_filename", StrV(name), f, NoneV, NoneV, <<>>,
                raises)

\* bucket.list_blobs(prefix=, delimiter=)
BucketListBlobs(prefix, delimiter, listing) ==
    StorageCall("list_blobs", NoneV, NoneV, prefix, delimiter, listing, FALSE)

\* blob.download_to_filename(destination_uri)
BlobDownloadToFilename(name, f, raises) ==
    StorageCall("download_to_filename", StrV(name), StrV(f), NoneV, NoneV,
                <<>>, raises)

\* with self._client.batch(): entering and leaving the block
ClientBatchEnter ==
    StorageCall("batch_enter", NoneV, NoneV, NoneV, NoneV, <<>>, FALSE)
ClientBatchExit ==
    StorageCall("batch_exit", NoneV, NoneV, NoneV, NoneV, <<>>, FALSE)

\* blob.delete()
BlobDelete(name, raises) ==
    StorageCall("delete", StrV(name), NoneV, NoneV, NoneV, <<>>, raises)

\* How many rounds of a loop over n items run when the failAt-th round
\* raises (none raises when failAt is not in 1..n).
Rounds(n, failAt) == IF failAt \in 1..n THEN failAt ELSE n

\* How a loop over n items ends.
LoopEnd(n, failAt) ==
    IF failAt \in 1..n THEN Raise("GoogleAPIError")
    ELSE Return("NoneType", 0)

\* -------------------------------------------------------- GCS actions
\* An action yields [ret, calls]; failAt is the transfer the service fails.

\* upload's loop naming each object after the file's whole path.
UploadLoop_FullPath(g, files, failAt) ==
    [j \in 1..(2 * Rounds(Len(files), failAt)) |->
        LET i == (j + 1) \div 2
            name == Format(g._prefix) \o <<"/">> \o files[i].s
        IN IF j % 2 = 1 THEN BucketBlob(name)
           ELSE BlobUploadFromFilename(name, files[i], i = failAt)]

\* The calls of upload's loop over files.
UploadLoop(g, files, failAt) ==
    [j \in 1..(2 * Rounds(Len(files), failAt)) |->
        LET i == (j + 1) \div 2
            name == Format(g._prefix) \o <<"/">> \o Basename(files[i].s)
        IN IF j % 2 = 1 THEN BucketBlob(name)
           ELSE BlobUploadFromFilename(name, files[i], i = failAt)]

GCS_upload(g, failAt) ==
    IF ~IsSet(g._bucket) THEN Outcome(Raise("AttributeError"), <<>>)
    ELSE LET c == <<ClientBucket(g._bucket)>>
         IN IF ~IsSet(g._local_files)
            THEN Outcome(Raise("AttributeError"), c)
            ELSE IF g._local_files.l = <<>>
            THEN Outcome(Return("NoneType", 0), c)
            ELSE IF ~IsSet(g._prefix)
            THEN Outcome(Raise("AttributeError"), c)
            ELSE Outcome(LoopEnd(Len(g._local_files.l), failAt),
                         c \o UploadLoop(g, g._local_files.l, failAt))

\* download() transferring every listed name.
NotDirectory_Any(name) == TRUE

\* The listed names download() transfers.
NotDirectory(name) == ~EndsWith(name, <<"/">>)

\* The calls of download's loop over blobs.
DownloadLoop(g, names, failAt) ==
    [i \in 1..Rounds(Len(names), failAt) |->
        BlobDownloadToFilename(names[i],
                               Join(g._local.s, Basename(names[i])),
                               i = failAt)]

GCS_download(g, f, listing, failAt) ==
    IF ~IsSet(g._local) THEN Outcome(Raise("AttributeError"), <<>>)
    ELSE IF ~IsStr(g._local) THEN Outcome(Raise("TypeError"), <<>>)
    ELSE IF ~IsDir(f, g._local.s) THEN Outcome(Raise("ValueError"), <<>>)
    ELSE IF ~IsSet(g._bucket) THEN Outcome(Raise("AttributeError"), <<>>)
    ELSE LET c == <<ClientBucket(g._bucket)>>
             names == SelectSeq(listing, NotDirectory)
         IN IF ~IsSet(g._prefix)
            THEN Outcome(Raise("AttributeError"), c)
            ELSE Outcome(LoopEnd(Len(names), failAt),
                         c \o <<BucketListBlobs(g._prefix, StrV(<<"/">>),
                                                listing)>>
                           \o DownloadLoop(g, names, failAt))

\* The calls of delete's loop over blobs_to_delete.
DeleteLoop(names, failAt) ==
    [i \in 1..Rounds(Len(names), failAt) |->
        BlobDelete(names[i], i = failAt)]

\* delete() without the check that a prefix was given.
GCS_delete_Unguarded(g, listing, failAt) ==
    IF ~IsSet(g._bucket) THEN Outcome(Raise("AttributeError"), <<>>)
    ELSE Outcome(LoopEnd(Len(listing), failAt),
                 <<ClientBucket(g._bucket),
                   BucketListBlobs(NoneV, NoneV, listing),
                   ClientBatchEnter>>
                   \o DeleteLoop(listing, failAt)
                   \o <<ClientBatchExit>>)

GCS_delete(g, listing, failAt) ==
    IF ~IsSet(g._prefix) THEN Outcome(Raise("ValueError"), <<>>)
    ELSE IF ~IsSet(g._bucket) THEN Outcome(Raise("AttributeError"), <<>>)
    ELSE Outcome(LoopEnd(Len(listing), failAt),
                 <<ClientBucket(g._bucket),
                   BucketListBlobs(g._prefix, NoneV, listing),
                   ClientBatchEnter>>
                   \o DeleteLoop(listing, failAt)
                   \o <<ClientBatchExit>>)

\* ------------------------------------------------------- GCS inputs


\* A directory d holding two files and a directory named like a json
\* file, which holds a file of its own; and a file system where d is a file.
FileSystems ==
    {<<Entry(<<>>, Lit.d, "dir"),
       Entry(Lit.d, Lit.a_json, "file"),
       Entry(Lit.d, Lit.c_csv, "file"),
       Entry(Lit.d, Lit.s_json, "dir"),
       Entry(Lit.d_s_json, Lit.a_json, "file")>>,
     <<Entry(<<>>, Lit.d, "file")>>}

\* The arguments given to GCS and to its setters, by parameter, and, as
\* blob, the object names the bucket may hold.
GCSInputs ==
    [local |-> {StrV(Lit.d), StrV(Lit.d_slash), StrV(Lit.d_a_json),
         StrV(Lit.d_s_json), StrV(Lit.x), NoneV},
     suffix |-> {NoneV, StrV(<<>>), StrV(Lit.json)},
     bucket |-> {StrV(Lit.b), StrV(Lit.gs_b), StrV(Lit.gs_gs_b), NoneV},
     prefix |-> {StrV(Lit.how_are_you), StrV(Lit.p_slash), NoneV},
     blob |-> {Lit.p_a_json, Lit.p_s_slash, Lit.p_s_a_json}]

\* The keyword arguments given to GCS(): the settings, and suffix, which
\* names no setting.
GCSKwItems ==
    Kw("local", GCSInputs.local)
        \cup Kw("bucket", GCSInputs.bucket)
        \cup Kw("prefix", GCSInputs.prefix)
        \cup Kw("suffix", {StrV(Lit.json)})

GCSKwargSeqs ==
    UNION {{kw \in [1..n -> GCSKwItems] :
               \A i, j \in 1..n : i # j => kw[i].k # kw[j].k} :
           n \in 0..MaxKwargs}

\* What a listing of the bucket may return.
Listings ==
    UNION {{l \in [1..n -> GCSInputs.blob] :
               \A i, j \in 1..n : i # j => l[i] # l[j]} :
           n \in 0..MaxBlobs}

\* -------------------------------------------------- GCS state machine

\* gcs = GCS(project, **kwargs)
InitGCS ==
    \E f \in FileSystems, project \in BQInputs.project, kwargs \in GCSKwargSeqs :
        LET r == GCS_init(f, project, kwargs)
        IN /\ gcs = r.b
           /\ fs = f
           /\ alive = (r.exc = "none")
           /\ last = Op("__init__", project, kwargs)
           /\ ret = IF r.exc = "none" THEN Return("GCS", 0) ELSE Raise(r.exc)
           /\ calls = <<>>
           /\ bq = NoObject
           /\ sheet = NoSheet

\* A setter was called with value (and keywords kw) and ended as r.
GCSSetter(op, value, kw, r) ==
    /\ alive
    /\ gcs' = r.b
    /\ last' = Op(op, value, kw)
    /\ ret' = IF r.exc = "none" THEN Return("GCS", 0) ELSE Raise(r.exc)
    /\ calls' = <<>>
    /\ UNCHANGED <<alive, fs, bq, sheet>>

\* An action was called and ended as o.
GCSAction(op, o) ==
    /\ alive
    /\ last' = Op(op, NoneV, <<>>)
    /\ ret' = o.ret
    /\ calls' = o.calls
    /\ UNCHANGED <<gcs, alive, fs, bq, sheet>>

Call_GCS_local ==
    \E path \in GCSInputs.local, suffix \in GCSInputs.suffix :
        GCSSetter("local", path, <<[k |-> "suffix", v |-> suffix]>>,
                  GCS_local(gcs, fs, path, suffix))

Call_GCS_bucket ==
    \E v \in GCSInputs.bucket : GCSSetter("bucket", v, <<>>, GCS_bucket(gcs, v))

Call_GCS_prefix ==
    \E v \in GCSInputs.prefix : GCSSetter("prefix", v, <<>>, GCS_prefix(gcs, v))

Call_GCS_upload ==
    \E failAt \in 0..MaxBlobs :
        GCSAction("upload", GCS_upload(gcs, failAt))

Call_GCS_download ==
    \E listing \in Listings, failAt \in 0..MaxBlobs :
        GCSAction("download", GCS_download(gcs, fs, listing, failAt))

Call_GCS_delete ==
    \E listing \in Listings, failAt \in 0..MaxBlobs :
        GCSAction("delete", GCS_delete(gcs, listing, failAt))

NextGCS ==
    \/ Call_GCS_local
    \/ Call_GCS_bucket
    \/ Call_GCS_prefix
    \/ Call_GCS_upload
    \/ Call_GCS_download
    \/ Call_GCS_delete

SpecGCS == InitGCS /\ [][NextGCS]_vars

\* ----------------------------------------------------- Sheet setters
\* A Sheet setter yields [b, exc] like a BQ setter, b being the Sheet's
\* __dict__; bq() yields the BQ object's __dict__ too, as field bq.

\* The keys of Sheet.__required_setting.
SheetRequiredSetting == {"sheet_id", "worksheet", "range", "bq", "schema"}

\* A reference to the BQ object of variable bq.
BQRef == [ty |-> "BQ", s |-> <<>>, l |-> <<>>]

\* A service_account.Credentials object.
Credentials == [ty |-> "Credentials", s |-> <<>>, l |-> <<>>]

Sheet_sheet_id(sh, sheet_id) ==
    IF ~IsStr(sheet_id) \/ Len(sheet_id.s) < 40
    THEN Raised(sh, "TypeError")
    ELSE Returned([sh EXCEPT !._sheet_id = sheet_id])

\* [a-zA-Z0-9-_]
IdChars ==
    {LowerCase[i] : i \in DOMAIN LowerCase}
        \cup {UpperCase[i] : i \in DOMAIN UpperCase}
        \cup {"0", "1", "2", "3", "4", "5", "6", "7", "8", "9", "-", "_"}

\* re.findall(RE_URL, url)[0] inside a one-element list, [] for no match:
\* the id characters that follow the first /spreadsheets/d/ they follow.
FindSheetId(url) ==
    LET m == Lit.spreadsheets_d
        starts == {i \in 1..Len(url) :
                     /\ i + Len(m) <= Len(url)
                     /\ SubSeq(url, i, i + Len(m) - 1) = m
                     /\ url[i + Len(m)] \in IdChars}
    IN IF starts = {} THEN <<>>
       ELSE LET a == Len(m) + CHOOSE i \in starts : \A j \in starts : i <= j
                z == CHOOSE k \in a..Len(url) :
                         /\ \A j \in a..k : url[j] \in IdChars
                         /\ k = Len(url) \/ url[k + 1] \notin IdChars
            IN <<SubSeq(url, a, z)>>

Sheet_url(sh, url) ==
    IF ~IsStr(url) \/ FindSheetId(url.s) = <<>>
    THEN Raised(sh, "ValueError")
    ELSE Returned([sh EXCEPT !._sheet_id = StrV(FindSheetId(url.s)[1])])

Sheet_schema(sh, schema) == Returned([sh EXCEPT !._schema = schema])

Sheet_worksheet(sh, worksheet) ==
    IF ~IsSet(sh._sheet_id) THEN Raised(sh, "ValueError")
    ELSE Returned([sh EXCEPT !._worksheet = worksheet])

\* Sheet.range without the check for a range inside the worksheet name.
Sheet_range_NoEmbedded(sh, range) ==
    IF ~IsSet(sh._worksheet) THEN Raised(sh, "ValueError")
    ELSE Returned([sh EXCEPT !._range = range])

Sheet_range(sh, range) ==
    IF ~IsSet(sh._worksheet) THEN Raised(sh, "ValueError")
    ELSE IF ~IsStr(sh._worksheet) THEN Raised(sh, "TypeError")
    ELSE IF Contains(sh._worksheet.s, "!") THEN Raised(sh, "ValueError")
    ELSE Returned([sh EXCEPT !._range = range])

Sheet_bq(sh, b, bq_) ==
    IF bq_.ty # "BQ" THEN [b |-> sh, bq |-> b, exc |-> "TypeError"]
    ELSE LET sh1 == [sh EXCEPT !._bq = bq_]
         IN IF IsSet(sh._schema)
            THEN LET r == BQ_schema(b, sh._schema)
                 IN [b |-> sh1, bq |-> r.b, exc |-> r.exc]
            ELSE [b |-> sh1, bq |-> b, exc |-> "none"]

\* getattr(self, attr)(value)
SheetDispatch(sh, b, attr, value) ==
    IF attr = "bq" THEN Sheet_bq(sh, b, value)
    ELSE LET r == CASE attr = "sheet_id" -> Sheet_sheet_id(sh, value)
                    [] attr = "worksheet" -> Sheet_worksheet(sh, value)
                    [] attr = "range" -> Sheet_range(sh, value)
                    [] attr = "schema" -> Sheet_schema(sh, value)
         IN [b |-> r.b, bq |-> b, exc |-> r.exc]

\* for attr in kwargs: ... , from the i-th keyword argument on
RECURSIVE SheetInitKwargs(_, _, _, _)
SheetInitKwargs(sh, b, kwargs, i) ==
    IF i > Len(kwargs) THEN [b |-> sh, bq |-> b, exc |-> "none"]
    ELSE IF kwargs[i].k \in SheetRequiredSetting
    THEN LET r == SheetDispatch(sh, b, kwargs[i].k, kwargs[i].v)
         IN IF r.exc # "none" THEN [b |-> NoSheet, bq |-> r.bq, exc |-> r.exc]
            ELSE SheetInitKwargs(r.b, r.bq, kwargs, i + 1)
    ELSE SheetInitKwargs(sh, b, kwargs, i + 1)

Sheet_init(f, b, credential_or_path, kwargs) ==
    IF \/ IsStr(credential_or_path) /\ IsFile(f, credential_or_path.s)
       \/ credential_or_path = Credentials
    THEN SheetInitKwargs(NoSheet, b, kwargs, 1)
    ELSE [b |-> NoSheet, bq |-> b, exc |-> "ValueError"]

\* ------------------------------------------------------- Sheet.load
\* A response of the spreadsheet service is [has_values, values]: whether
\* it holds the key "values", and the rows under it, each a sequence of
\* cells, each cell the characters of a str.

\* self._service.spreadsheets().values().get(spreadsheetId=, range=)
\* .execute(), answering response
SheetsGet(spreadsheetId, range, response) ==
    [op |-> "values_get", spreadsheetId |-> spreadsheetId, range |-> range,
     response |-> response]

\* The range Sheet._worksheet_request asks for, as [exc, range].
Sheet__worksheet_request(sh) ==
    IF ~IsSet(sh._range) THEN [exc |-> "none", range |-> sh._worksheet]
    ELSE IF ~IsStr(sh._worksheet) \/ ~IsStr(sh._range)
    THEN [exc |-> "TypeError", range |-> NoneV]
    ELSE [exc |-> "none",
          range |-> StrV(sh._worksheet.s \o <<"!">> \o sh._range.s)]

\* The pattern without its rule for the first character:
\* ^[a-zA-Z0-9_]+$
IsLegalHeader_AnyFirst(word) ==
    LET w == IF word # <<>> /\ word[Len(word)] = "\n"
             THEN SubSeq(word, 1, Len(word) - 1) ELSE word
    IN /\ w # <<>>
       /\ \A i \in DOMAIN w : w[i] \in IdChars \ {"-"}

\* regexp.search(word) for ^[a-zA-Z_][a-zA-Z0-9_]*$, where $ also matches
\* before a newline that ends the word
IsLegalHeader(word) ==
    LET w == IF word # <<>> /\ word[Len(word)] = "\n"
             THEN SubSeq(word, 1, Len(word) - 1) ELSE word
    IN /\ w # <<>>
       /\ w[1] \in IdChars \ {"0","1","2","3","4","5","6","7","8","9","-"}
       /\ \A i \in DOMAIN w : w[i] \in IdChars \ {"-"}

\* dict(zip(keys, vals)) as the sequence of its items [k, v]: as many
\* pairs as the shorter has, a key keeping its first place and its last
\* value
DictZip(keys, vals) ==
    LET n == IF Len(keys) < Len(vals) THEN Len(keys) ELSE Len(vals)
        First(i) == \A j \in 1..(i - 1) : keys[j] # keys[i]
        firsts == SelectSeq([i \in 1..n |-> i], First)
        LastOf(i) == CHOOSE j \in i..n :
                         /\ keys[j] = keys[i]
                         /\ \A h \in (j + 1)..n : keys[h] # keys[i]
    IN [x \in 1..Len(firsts) |->
           [k |-> keys[firsts[x]], v |-> vals[LastOf(firsts[x])]]]

\* Sheet._load, the service answering first and then second; yields the
\* Sheet's __dict__, the exception raised, the value its message names and
\* the calls made.
Sheet__load(sh, first, second) ==
    LET q == Sheet__worksheet_request(sh)
        c1 == SheetsGet(sh._sheet_id, q.range, first)
        c2 == SheetsGet(sh._sheet_id, q.range, second)
        data == second.values
        illegal_word == LET Illegal(w) == ~IsLegalHeader(w)
                        IN SelectSeq(data[1], Illegal)
        sh1 == [sh EXCEPT !._json_to_be_load = ListV(<<>>)]
        End(s, exc, msg, cs) == [b |-> s, exc |-> exc, msg |-> msg, calls |-> cs]
    IN IF q.exc # "none" THEN End(sh, q.exc, NoneV, <<>>)
       ELSE IF ~first.has_values THEN End(sh, "ValueError", NoneV, <<c1>>)
       ELSE IF ~second.has_values THEN End(sh, "KeyError", NoneV, <<c1, c2>>)
       ELSE IF data[1] = <<>> THEN End(sh, "ValueError", NoneV, <<c1, c2>>)
       ELSE IF ~IsSet(sh._schema)
       THEN IF illegal_word # <<>>
            THEN End(sh1, "ValueError", StrV(illegal_word[1]), <<c1, c2>>)
            ELSE End([sh EXCEPT !._json_to_be_load =
                        ListV([i \in 1..(Len(data) - 1) |->
                                  DictZip(data[1], data[i + 1])])],
                     "none", NoneV, <<c1, c2>>)
       ELSE IF Len(data[1]) # Len(sh._schema.l) + Len(sh._schema.s)
       THEN End(sh1, "ValueError", NoneV, <<c1, c2>>)
       ELSE IF sh._schema.ty # "list"
       THEN End(sh1, "AttributeError", NoneV, <<c1, c2>>)
       ELSE End([sh EXCEPT !._json_to_be_load =
                    ListV([i \in 1..(Len(data) - 1) |->
                              DictZip(sh._schema.l,
                                      [j \in DOMAIN data[i + 1] |->
                                          Strip(data[i + 1][j])])])],
                "none", NoneV, <<c1, c2>>)

\* self._bq._client.load_table_from_json(json, table, location=, job_config=)
ClientLoadTableFromJson(json, table, location, job_config) ==
    ClientCall("load_table_from_json", json, table, location, job_config,
               0, FALSE)

\* Sheet.load's guards without the one for the destination table.
Sheet_load_unconfigured_NoTable(sh, b) ==
    ~IsSet(sh._bq) \/ ~IsSet(sh._worksheet)

\* Sheet.load's guards: .worksheet() and .bq() must be called before run,
\* and the bigquery table must be given.
Sheet_load_unconfigured(sh, b) ==
    \/ ~IsSet(sh._bq) \/ ~IsSet(sh._worksheet)
    \/ ~IsSet(b._table)

\* Sheet.load going on whatever is_exist returned.
Sheet_load_conflict_Never(e) == FALSE

\* if self._bq.is_exist(): raise Conflict, for the outcome e of is_exist
Sheet_load_conflict(e) == e.ret.n = 1

\* Sheet.load(location) on the Sheet sh and its BQ object b: first and
\* second are the answers to the two requests _load makes, found is what
\* the existence check meets, ok whether the service accepts the job.
\* The job configuration is chosen as BQ.load chooses it.
Sheet_load(sh, b, location, first, second, found, ok) ==
    LET l == Sheet__load(sh, first, second)
        e == BQ_is_exist(b, found)
        submit == ClientLoadTableFromJson(l.b._json_to_be_load, b._table,
                                          location, BQ_load_job_config(b))
        End(s, r, cs) == [b |-> s, ret |-> r, calls |-> cs]
    IN IF Sheet_load_unconfigured(sh, b)
       THEN End(sh, Raise("ValueError"), <<>>)
       ELSE IF l.exc # "none"
       THEN End(l.b, [Raise(l.exc) EXCEPT !.msg = l.msg], l.calls)
       ELSE IF e.ret.exc # "none" THEN End(l.b, e.ret, l.calls \o e.calls)
       ELSE IF Sheet_load_conflict(e)
       THEN End(l.b, Raise("Conflict"), l.calls \o e.calls)
       ELSE End(l.b,
                IF ok THEN Return("NoneType", 0) ELSE Raise("GoogleAPIError"),
                l.calls \o e.calls
                    \o <<submit, JobResult(ok, Len(l.b._json_to_be_load.l))>>)

\* ------------------------------------------------------ Sheet inputs

\* The arguments given to Sheet and to its setters, by parameter: the
\* url of the tests, one whose id is two characters long, and one without
\* an id.  table is the keywords the BQ object was constructed with.
\* response is what the spreadsheet service may answer: no values; an
\* empty header row; header name, age with a row to trim and a short row;
\* a header of two illegal names; a header with one name twice.
SheetInputs ==
    [credential_or_path |-> {StrV(Lit.key), StrV(Lit.x), Credentials, NoneV},
     sheet_id |-> {StrV(Lit.id44), StrV(Lit.not_a_valid_sheet), NoneV},
     url |-> {StrV(Lit.docs \o Lit.spreadsheets_d \o Lit.id44 \o Lit.edit),
              StrV(Lit.spreadsheets_d \o <<"a", "b", "?">>),
              StrV(Lit.docs \o Lit.spreadsheets_d),
              NoneV},
     worksheet |-> {StrV(Lit.my_name), StrV(Lit.sheet_name_A1_B100), NoneV},
     range |-> {StrV(Lit.A1_B1), NoneV},
     schema |-> BQInputs.schema,
     bq |-> {BQRef, NoneV},
     table |-> {<<>>, <<[k |-> "table", v |-> StrV(<<"d",".","t">>)]>>},
     response |->
        {[has_values |-> FALSE, values |-> <<>>],
         [has_values |-> TRUE, values |-> <<<<>>, <<<<"a">>>>>>],
         [has_values |-> TRUE,
          values |-> <<<<Lit.name, Lit.age>>,
                       <<<<" ","a"," ">>, <<"1">>>>, <<<<"b">>>>>>],
         [has_values |-> TRUE,
          values |-> <<<<Lit.bad1, <<"a"," ","b">>>>,
                       <<<<"a">>, <<"1">>>>>>],
         [has_values |-> TRUE,
          values |-> <<<<Lit.name, Lit.name>>, <<<<"a">>, <<"b">>>>>>]}]

\* The keyword arguments given to Sheet(): the settings, and url, which
\* names no setting.
SheetKwItems ==
    UNION {Kw(k, SheetInputs[k] \ {NoneV}) :
              k \in {"sheet_id", "worksheet", "range", "bq"}}
        \cup Kw("schema", {ListV(<<Lit.name, Lit.age>>)})
        \cup Kw("url", {StrV(Lit.spreadsheets_d \o <<"a", "b", "?">>)})

SheetKwargSeqs ==
    UNION {{kw \in [1..n -> SheetKwItems] :
               \A i, j \in 1..n : i # j => kw[i].k # kw[j].k} :
           n \in 0..MaxKwargs}

\* ------------------------------------------------ Sheet state machine

\* bq = BQ("p") or BQ("p", table="d.t"); sheet = Sheet(credential_or_path,
\* **kwargs), the file system holding the one key file.
InitSheet ==
    \E credential \in SheetInputs.credential_or_path,
       kwargs \in SheetKwargSeqs, table \in SheetInputs.table :
        LET f == <<Entry(<<>>, Lit.key, "file")>>
            r == Sheet_init(f, BQ_init(StrV(<<"p">>), table).b, credential,
                            kwargs)
        IN /\ sheet = r.b
           /\ bq = r.bq
           /\ fs = f
           /\ alive = (r.exc = "none")
           /\ last = Op("__init__", credential, kwargs)
           /\ ret = IF r.exc = "none" THEN Return("Sheet", 0)
                    ELSE Raise(r.exc)
           /\ calls = <<>>
           /\ gcs = NoGCS

\* A setter was called with value and ended as r.
SheetSetter(op, value, r) ==
    /\ alive
    /\ sheet' = r.b
    /\ last' = Op(op, value, <<>>)
    /\ ret' = IF r.exc = "none" THEN Return("Sheet", 0) ELSE Raise(r.exc)
    /\ calls' = <<>>
    /\ UNCHANGED <<alive, fs, gcs>>

Call_Sheet_sheet_id ==
    \E v \in SheetInputs.sheet_id :
        SheetSetter("sheet_id", v, Sheet_sheet_id(sheet, v)) /\ UNCHANGED bq

Call_Sheet_url ==
    \E v \in SheetInputs.url :
        SheetSetter("url", v, Sheet_url(sheet, v)) /\ UNCHANGED bq

Call_Sheet_schema ==
    \E v \in SheetInputs.schema :
        SheetSetter("schema", v, Sheet_schema(sheet, v)) /\ UNCHANGED bq

Call_Sheet_worksheet ==
    \E v \in SheetInputs.worksheet :
        SheetSetter("worksheet", v, Sheet_worksheet(sheet, v))
            /\ UNCHANGED bq

Call_Sheet_range ==
    \E v \in SheetInputs.range :
        SheetSetter("range", v, Sheet_range(sheet, v)) /\ UNCHANGED bq

Call_Sheet_bq ==
    \E v \in SheetInputs.bq :
        LET r == Sheet_bq(sheet, bq, v)
        IN SheetSetter("bq", v, r) /\ bq' = r.bq

\* The second answer is the first again or holds no values; the job's fate
\* is drawn only when a job is submitted.
Call_Sheet_load ==
    \E location \in BQInputs.location,
       first \in SheetInputs.response, second \in SheetInputs.response,
       found \in {"found", "NotFound", "error"}, ok \in BOOLEAN :
        LET o == Sheet_load(sheet, bq, location, first, second, found, ok)
        IN /\ ~first.has_values => second = first
           /\ second \in {first, [has_values |-> FALSE, values |-> <<>>]}
           /\ found # "NotFound" => ok
           /\ alive
           /\ sheet' = o.b
           /\ last' = Op("load", location, <<>>)
           /\ ret' = o.ret
           /\ calls' = o.calls
           /\ UNCHANGED <<alive, fs, gcs, bq>>

NextSheet ==
    \/ Call_Sheet_sheet_id
    \/ Call_Sheet_url
    \/ Call_Sheet_schema
    \/ Call_Sheet_worksheet
    \/ Call_Sheet_range
    \/ Call_Sheet_bq
    \/ Call_Sheet_load

SpecSheet == InitSheet /\ [][NextSheet]_vars

\* ---------------------------------------------------------- properties

\* f"{project}.{table}"
QualifiedId(project, table) == StrV(project.s \o <<".">> \o table.s)

\* The positions of the calls named op among the calls of the last call.
CallsOf(op) == {i \in 1..Len(calls) : calls[i].op = op}

\* C1: query() with a SQL statement stored branches on table alone: with no
\* table it calls the client's query with the SQL and no job configuration
\* and returns the row iterator; with a table it calls query with a job
\* configuration whose destination is project.table and whose dispositions
\* are the stored mode and create mode, and returns the reported row count.
C1_QueryBranchesOnTable ==
    (alive /\ last.op = "query" /\ IsSet(bq._sql)) =>
        /\ Len(calls) = 2
        /\ calls[2].op = "result"
        /\ IF ~IsSet(bq._table)
           THEN /\ calls[1] = ClientQuery(bq._sql, NoJobConfig)
                /\ ret.exc = "none" =>
                       ret = Return("RowIterator", calls[2].out)
           ELSE /\ calls[1] =
                       ClientQuery(bq._sql,
                           QueryJobConfig(QualifiedId(bq._project, bq._table),
                                          bq._mode, bq._create_mode))
                /\ ret.exc = "none" => ret = Return("int", calls[2].out)

\* query() ran with a table, a mode other than the default and no source
\* URI stored, and returned the job's row count.
C1_Witness ==
    /\ last.op = "query"
    /\ IsSet(bq._table) /\ ~IsSet(bq._gcs)
    /\ bq._mode.s = Lit.S_WRITE_TRUNCATE
    /\ ret = Return("int", MaxRows)

\* C2: load() with table or source URI missing raises ValueError, calls
\* nothing on the client and changes no attribute; with both it submits
\* exactly one load job, from the stored URI to project.table with the
\* caller's location.
C2_LoadNeedsTableAndGcs ==
    [][last'.op = "load" =>
        /\ bq' = bq
        /\ IF ~IsSet(bq._table) \/ ~IsSet(bq._gcs)
           THEN ret' = Raise("ValueError") /\ calls' = <<>>
           ELSE /\ ret'.exc # "ValueError"
                /\ {i \in 1..Len(calls') :
                        calls'[i].op = "load_table_from_uri"} = {1}
                /\ calls'[1].arg = bq._gcs
                /\ calls'[1].table = QualifiedId(bq._project, bq._table)
                /\ calls'[1].location = last'.arg]_vars

\* load() was refused although a table was set, the source URI missing.
C2_Witness ==
    /\ last.op = "load"
    /\ IsSet(bq._table) /\ ~IsSet(bq._gcs)
    /\ ret = Raise("ValueError")
    /\ calls = <<>>

\* C3: the job load() submits asks for schema auto-detection exactly when no
\* schema is stored; with a schema stored it carries that schema and no
\* autodetect; either way its source format is the stored format.
C3_LoadAutodetectIffNoSchema ==
    (alive /\ last.op = "load" /\ IsSet(bq._table) /\ IsSet(bq._gcs)) =>
        LET job_config == calls[1].job_config
        IN /\ calls[1].op = "load_table_from_uri"
           /\ job_config.kind = "LoadJobConfig"
           /\ job_config.source_format = bq._format
           /\ job_config.autodetect <=> ~IsSet(bq._schema)
           /\ job_config.schema =
                  IF IsSet(bq._schema) THEN bq._schema ELSE NoneV

\* load() ran with a two-field schema and a format other than the default.
C3_Witness ==
    /\ last.op = "load"
    /\ Len(calls) > 0
    /\ Len(bq._schema.l) = 2
    /\ calls[1].job_config.schema = bq._schema
    /\ calls[1].job_config.source_format = StrV(Lit.S_CSV)

\* C4: when load() returns, it returns the num_rows of the one get_table it
\* made, and made last, after the job's result(); when the job fails no
\* get_table is made.  The count is the table's, not the job's.
C4_LoadReturnsTableCount ==
    (alive /\ last.op = "load") =>
        IF ret.exc = "none"
        THEN /\ Len(calls) = 3
             /\ calls[1].op = "load_table_from_uri"
             /\ calls[2].op = "result" /\ ~calls[2].raises
             /\ CallsOf("get_table") = {3}
             /\ calls[3].table = QualifiedId(bq._project, bq._table)
             /\ ret = Return("int", calls[3].out)
        ELSE CallsOf("get_table") = {}

\* load() appended to a table that held rows: the count returned is larger
\* than the number of rows the job loaded.
C4_Witness ==
    /\ last.op = "load"
    /\ ret.exc = "none"
    /\ bq._mode.s = Lit.S_WRITE_APPEND
    /\ calls[2].out = 1
    /\ ret.n = 2

\* C5: in WRITE_APPEND mode load() fetches the table's row count twice,
\* before and after the job, and returns the difference; in WRITE_EMPTY mode
\* it fetches the count once and returns it.
C5_LoadReturnsRowsAdded ==
    (alive /\ last.op = "load" /\ ret.exc = "none") =>
        LET job == CHOOSE i \in CallsOf("load_table_from_uri") : TRUE
            counts == CallsOf("get_table")
        IN CASE bq._mode.s = Lit.S_WRITE_APPEND ->
                    \E i, j \in counts :
                        /\ counts = {i, j}
                        /\ i < job /\ job < j
                        /\ ret = Return("int", calls[j].out - calls[i].out)
             [] bq._mode.s = Lit.S_WRITE_EMPTY ->
                    \E j \in counts :
                        /\ counts = {j}
                        /\ ret = Return("int", calls[j].out)
             [] OTHER -> TRUE

\* s contains a '.'
HasDot(s) == "." \in {s[i] : i \in DOMAIN s}

\* C6: table(name) returns for every str with a '.', storing the name and
\* project.name, and raises ValueError for every other value, storing
\* nothing; no other call changes the two.  So whenever a table is stored
\* the fully-qualified id is project + '.' + table.
C6_TableQualified ==
    /\ [](alive /\ IsSet(bq._table) =>
              /\ HasDot(bq._table.s)
              /\ bq.__table_id = QualifiedId(bq._project, bq._table))
    /\ [][IF last'.op = "table" /\ IsStr(last'.arg) /\ HasDot(last'.arg.s)
          THEN /\ ret' = Return("BQ", 0)
               /\ bq'._table = last'.arg
               /\ bq'.__table_id = QualifiedId(bq._project, last'.arg)
          ELSE /\ last'.op = "table" => ret' = Raise("ValueError")
               /\ bq'._table = bq._table
               /\ bq'.__table_id = bq.__table_id]_vars

\* table() was refused a name without '.' while an earlier name was stored.
C6_Witness ==
    /\ last.op = "table"
    /\ IsStr(last.arg) /\ Len(last.arg.s) > 0 /\ ~HasDot(last.arg.s)
    /\ ret = Raise("ValueError")
    /\ IsSet(bq._table)
    /\ bq.__table_id = StrV(<<"p", ".", "d", ".", "t">>)

\* v is a str that begins, trimmed and in upper case, with SELECT or WITH
IsReadQuery(v) ==
    /\ IsStr(v)
    /\ \E keyword \in {Lit.S_SELECT, Lit.S_WITH} :
           StartsWith(Upper(Strip(v.s)), keyword)

\* C7: sql(text) stores the text when it is a read query and otherwise
\* raises ValueError and leaves the stored statement as it was; no other
\* call changes it.  So a stored statement begins with SELECT or WITH.
C7_SqlReadQueryOnly ==
    /\ [](alive /\ IsSet(bq._sql) => IsReadQuery(bq._sql))
    /\ [][IF last'.op = "sql" /\ IsReadQuery(last'.arg)
          THEN ret' = Return("BQ", 0) /\ bq'._sql = last'.arg
          ELSE /\ last'.op = "sql" => ret' = Raise("ValueError")
               /\ bq'._sql = bq._sql]_vars

\* sql('insert into') was refused while a WITH statement, written with
\* leading white space and in mixed case, stayed stored.
C7_Witness ==
    /\ last.op = "sql"
    /\ last.arg = StrV(<<"i","n","s","e","r","t"," ","i","n","t","o">>)
    /\ ret = Raise("ValueError")
    /\ IsSet(bq._sql)
    /\ Head(bq._sql.s) = " "

\* C8: sql() accepts a statement that begins with DELETE and stores it.
C8_SqlAcceptsDelete ==
    (alive /\ last.op = "sql" /\ IsStr(last.arg)
        /\ StartsWith(Upper(Strip(last.arg.s)), Lit.S_DELETE)) =>
        /\ ret = Return("BQ", 0)
        /\ bq._sql = last.arg

WriteModes == {Lit.S_WRITE_EMPTY, Lit.S_WRITE_TRUNCATE, Lit.S_WRITE_APPEND}
CreateModes == {Lit.S_CREATE_NEVER, Lit.S_CREATE_IF_NEEDED}

\* The constructor was given name as a keyword.
GivenKeyword(name) == \E i \in DOMAIN last.kw : last.kw[i].k = name

\* C9: the stored write mode and create mode are always one of their allowed
\* values: a builder constructed without them has WRITE_APPEND and
\* CREATE_IF_NEEDED, mode() and create_mode() store an allowed value as
\* given and raise ValueError for any other, storing nothing, and no other
\* call changes the two.
C9_ModesAllowed ==
    /\ [](alive =>
              /\ IsStr(bq._mode) /\ bq._mode.s \in WriteModes
              /\ IsStr(bq._create_mode) /\ bq._create_mode.s \in CreateModes
              /\ (last.op = "__init__" /\ ~GivenKeyword("mode")) =>
                     bq._mode = StrV(Lit.S_WRITE_APPEND)
              /\ (last.op = "__init__" /\ ~GivenKeyword("create_mode")) =>
                     bq._create_mode = StrV(Lit.S_CREATE_IF_NEEDED))
    /\ [][/\ IF /\ last'.op = "mode"
                /\ IsStr(last'.arg) /\ last'.arg.s \in WriteModes
             THEN ret' = Return("BQ", 0) /\ bq'._mode = last'.arg
             ELSE /\ last'.op = "mode" => ret' = Raise("ValueError")
                  /\ bq'._mode = bq._mode
          /\ IF /\ last'.op = "create_mode"
                /\ IsStr(last'.arg) /\ last'.arg.s \in CreateModes
             THEN ret' = Return("BQ", 0) /\ bq'._create_mode = last'.arg
             ELSE /\ last'.op = "create_mode" => ret' = Raise("ValueError")
                  /\ bq'._create_mode = bq._create_mode]_vars

\* mode() was refused the lower-case name of a mode while WRITE_TRUNCATE,
\* stored by an earlier call, stayed.
C9_Witness ==
    /\ last.op = "mode"
    /\ IsStr(last.arg) /\ Upper(last.arg.s) = Lit.S_WRITE_APPEND
    /\ ret = Raise("ValueError")
    /\ bq._mode = StrV(Lit.S_WRITE_TRUNCATE)
    /\ bq._create_mode = StrV(Lit.S_CREATE_NEVER)

\* v is one of the supported file formats
IsSupportedFormat(v) == IsStr(v) /\ v.s \in SupportedFormats

\* C10: format(name) raises ValueError for a name that is no supported file
\* format, as a setter and as the constructor's keyword, so the stored
\* format is always a supported one.
C10_FormatValidated ==
    /\ alive => IsSupportedFormat(bq._format)
    /\ (last.op = "format" /\ ~IsSupportedFormat(last.arg)) =>
           ret = Raise("ValueError")
    /\ (/\ last.op = "__init__"
        /\ \E i \in DOMAIN last.kw :
               last.kw[i].k = "format" /\ ~IsSupportedFormat(last.kw[i].v)) =>
           ~alive /\ ret.exc # "none"

\* C11: is_exist() with a table set makes one get_table for project.table
\* and nothing else, returns false when the service raises NotFound and true
\* when it finds the table, raising in neither case, and changes no
\* attribute.  Any other error of the service is passed on.
C11_IsExistTranslatesNotFound ==
    [][(last'.op = "is_exist" /\ IsSet(bq._table)) =>
        /\ bq' = bq
        /\ Len(calls') = 1
        /\ calls'[1].op = "get_table"
        /\ calls'[1].table = QualifiedId(bq._project, bq._table)
        /\ CASE calls'[1].exc = "none" -> ret' = Return("bool", 1)
             [] calls'[1].exc = "NotFound" -> ret' = Return("bool", 0)
             [] OTHER -> ret' = Raise(calls'[1].exc)]_vars

\* is_exist() returned false after the service raised NotFound.
C11_Witness ==
    /\ last.op = "is_exist"
    /\ Len(calls) = 1
    /\ calls[1].raises /\ calls[1].exc = "NotFound"
    /\ ret = Return("bool", 0)

\* C12: delete() and drop() behave alike: without a table they raise
\* ValueError and call nothing; with one they make exactly one delete_table
\* of project.table with not_found_ok set and return, whether or not the
\* table exists, so also when the call before was a delete() or drop().
C12_DeleteDropTolerant ==
    [][last'.op \in {"delete", "drop"} =>
        /\ bq' = bq
        /\ IF ~IsSet(bq._table)
           THEN ret' = Raise("ValueError") /\ calls' = <<>>
           ELSE /\ Len(calls') = 1
                /\ calls'[1].op = "delete_table"
                /\ calls'[1].table = QualifiedId(bq._project, bq._table)
                /\ calls'[1].not_found_ok
                /\ ~calls'[1].raises
                /\ ret' = Return("NoneType", 0)]_vars

\* drop() returned although the service had no such table.
C12_Witness ==
    /\ last.op = "drop"
    /\ Len(calls) = 1
    /\ calls[1].op = "delete_table" /\ calls[1].out = 0
    /\ ret = Return("NoneType", 0)

\* C13: BQ(project, **kwargs) ends as BQ(project) followed by the setter
\* named by each argument, in the arguments' order, ends: with the same
\* attributes when every setter returned, with the exception of the setter
\* that raised and no object otherwise; an argument that names no setter
\* changes nothing.
C13_ConstructorIsSetterCalls ==
    alive =>
        LET r == BQ_init(bq._project, last.kw)
        IN IF ret.exc = "none"
           THEN r = Returned(bq)
           ELSE r = Raised(NoObject, ret.exc)

\* Two calls were made after BQ(project), one for an argument that names no
\* setter and one that stored a table.
C13_Witness ==
    /\ Len(last.kw) = 2
    /\ \E i \in DOMAIN last.kw : last.kw[i].k \notin RequiredSetting
    /\ ret.exc = "none"
    /\ IsSet(bq._table)

\* path without one trailing "/"
NoTrailingSlash(path) ==
    IF EndsWith(path, <<"/">>) THEN SubSeq(path, 1, Len(path) - 1) ELSE path

\* basename placed in the directory
InDir(directory, basename) == NoTrailingSlash(directory) \o <<"/">> \o basename

\* The paths of the regular files directly inside the directory whose names
\* end with suffix, every file when no suffix is given.
DirectFiles(directory, suffix) ==
    {InDir(directory, fs[i].name) : i \in
        {j \in DOMAIN fs :
            /\ fs[j].kind = "file"
            /\ fs[j].dir = NoTrailingSlash(directory)
            /\ Truthy(suffix) => EndsWith(fs[j].name, suffix.s)}}

\* The resolved file list is what local(path, suffix) finds in the file
\* system.
ResolvedFrom(path, suffix) ==
    LET files == gcs._local_files.l
    IN IF IsFile(fs, path.s) THEN files = <<path>>
       ELSE /\ {files[i].s : i \in DOMAIN files} = DirectFiles(path.s, suffix)
            /\ \A i, j \in DOMAIN files : files[i] = files[j] => i = j
            /\ \A i \in DOMAIN files : IsStr(files[i])

\* C14: after a successful local(path, suffix), as a call or as the
\* constructor's keyword, the resolved file list is [path] for a file and
\* the regular files directly inside a directory, those ending with suffix
\* when one is given, whatever the list held before; a path that is neither
\* a file nor a directory raises ValueError.
C14_LocalResolvesFiles ==
    /\ (last.op = "local" /\ ret.exc = "none") =>
           ResolvedFrom(last.arg, last.kw[1].v)
    /\ (last.op = "local" /\ IsStr(last.arg)) =>
           (ret = Raise("ValueError")
                <=> ~IsFile(fs, last.arg.s) /\ ~IsDir(fs, last.arg.s))
    /\ (last.op = "__init__" /\ alive) =>
           \A i \in DOMAIN last.kw :
               last.kw[i].k = "local" => ResolvedFrom(last.kw[i].v, NoneV)

\* local(d, "json") returned for a directory d holding the files a.json and
\* c.csv and a directory s.json: a.json alone was resolved.
C14_Witness ==
    /\ last.op = "local"
    /\ last.arg = StrV(Lit.d)
    /\ last.kw[1].v = StrV(Lit.json)
    /\ ret.exc = "none"
    /\ gcs._local_files = ListV(<<StrV(Lit.d_a_json)>>)
    /\ Len(fs) > 1

\* C15: a stored bucket name never starts with gs://, whatever string was
\* given to bucket(), and a name given without gs:// is stored as given.
C15_BucketHasNoScheme ==
    /\ (alive /\ IsSet(gcs._bucket)) => ~StartsWith(gcs._bucket.s, Lit.S_gs)
    /\ (/\ last.op = "bucket"
        /\ IsStr(last.arg)
        /\ ~StartsWith(last.arg.s, Lit.S_gs)) => gcs._bucket = last.arg

\* What follows the last "/" of a path.
AfterLastSlash(path) ==
    LET slashes == {i \in DOMAIN path : path[i] = "/"}
        k == IF slashes = {} THEN 0
             ELSE CHOOSE i \in slashes : \A j \in slashes : j <= i
    IN SubSeq(path, k + 1, Len(path))

\* C16: an upload() that returns obtained the bucket handle once, for the
\* stored bucket, and then for each resolved file, in list order, made one
\* transfer of that file to the object prefix/basename(file), so that files
\* with one basename go to one object name; it made no other call and left
\* the configuration as it was.
C16_UploadOnePerFile ==
    /\ []((last.op = "upload" /\ ret.exc = "none") =>
            LET files == gcs._local_files.l
            IN /\ Len(calls) = 1 + 2 * Len(files)
               /\ calls[1] = ClientBucket(gcs._bucket)
               /\ \A i \in DOMAIN files :
                      LET name == StrV(Format(gcs._prefix) \o <<"/">>
                                           \o AfterLastSlash(files[i].s))
                      IN /\ calls[2 * i].op = "blob"
                         /\ calls[2 * i].name = name
                         /\ calls[2 * i + 1].op = "upload_from_filename"
                         /\ calls[2 * i + 1].name = name
                         /\ calls[2 * i + 1].file = files[i])
    /\ [][last'.op = "upload" => gcs' = gcs]_vars

\* upload() returned after transferring the two files of a directory.
C16_Witness ==
    /\ last.op = "upload"
    /\ ret.exc = "none"
    /\ Len(gcs._local_files.l) = 2
    /\ Cardinality(CallsOf("upload_from_filename")) = 2

\* The names the one listing call of the most recent call returned.
Listed == calls[CHOOSE i \in CallsOf("list_blobs") : TRUE].out

\* The calls of kind op made for the object called name.
CallsFor(op, name) == {i \in CallsOf(op) : calls[i].name.s = name}

\* C17: download() raises ValueError before any call on the client when
\* the stored local path is no directory; a download() that returns has
\* downloaded each listed object whose name does not end with "/" once, to
\* basename(name) inside the local directory, and no other object.
C17_DownloadSkipsDirectories ==
    last.op = "download" =>
        /\ (IsStr(gcs._local) /\ ~IsDir(fs, gcs._local.s)) =>
               ret = Raise("ValueError") /\ calls = <<>>
        /\ ret.exc = "none" =>
               /\ Cardinality(CallsOf("list_blobs")) = 1
               /\ \A k \in DOMAIN Listed :
                      LET made == CallsFor("download_to_filename", Listed[k])
                      IN IF EndsWith(Listed[k], <<"/">>) THEN made = {}
                         ELSE /\ Cardinality(made) = 1
                              /\ \A i \in made :
                                     calls[i].file.s =
                                         InDir(gcs._local.s,
                                               AfterLastSlash(Listed[k]))
               /\ \A i \in CallsOf("download_to_filename") :
                      \E k \in DOMAIN Listed : calls[i].name.s = Listed[k]

\* download() returned after a listing of one object to download and one
\* name ending with "/".
C17_Witness ==
    /\ last.op = "download"
    /\ ret.exc = "none"
    /\ Len(Listed) = 2
    /\ \E k \in DOMAIN Listed : EndsWith(Listed[k], <<"/">>)
    /\ Cardinality(CallsOf("download_to_filename")) = 1

\* C18: download() and delete() list the bucket once, with the stored
\* prefix followed by "/" and with the delimiter "/".
C18_ListingPrefixEndsWithSlash ==
    (last.op \in {"download", "delete"} /\ ret.exc = "none"
        /\ IsStr(gcs._prefix)) =>
        /\ Cardinality(CallsOf("list_blobs")) = 1
        /\ \A i \in CallsOf("list_blobs") :
               /\ calls[i].prefix = StrV(gcs._prefix.s \o <<"/">>)
               /\ calls[i].delimiter = StrV(<<"/">>)

\* C19: delete() without a stored prefix raises ValueError and calls
\* nothing; with a prefix and a bucket it lists the bucket once under that
\* prefix, opens one batch, deletes inside it only listed objects, none
\* twice, and every listed object when it returns.
C19_DeleteListedInOneBatch ==
    last.op = "delete" =>
        /\ ~IsSet(gcs._prefix) => ret = Raise("ValueError") /\ calls = <<>>
        /\ (IsSet(gcs._prefix) /\ IsSet(gcs._bucket)) =>
               /\ Cardinality(CallsOf("list_blobs")) = 1
               /\ \A i \in CallsOf("list_blobs") :
                      calls[i].prefix = gcs._prefix
               /\ Cardinality(CallsOf("batch_enter")) = 1
               /\ Cardinality(CallsOf("batch_exit")) = 1
               /\ \A i \in CallsOf("delete") :
                      /\ \E k \in DOMAIN Listed : calls[i].name.s = Listed[k]
                      /\ \E e \in CallsOf("batch_enter") : e < i
                      /\ \E x \in CallsOf("batch_exit") : i < x
               /\ \A k \in DOMAIN Listed :
                      Cardinality(CallsFor("delete", Listed[k])) <= 1
               /\ ret.exc = "none" =>
                      \A k \in DOMAIN Listed :
                          Cardinality(CallsFor("delete", Listed[k])) = 1

\* delete() returned after deleting the two objects of a listing.
C19_Witness ==
    /\ last.op = "delete"
    /\ ret.exc = "none"
    /\ Len(Listed) = 2
    /\ Cardinality(CallsOf("delete")) = 2

\* The worksheet name holds a range of its own.
EmbedsRange(worksheet) == IsStr(worksheet) /\ Contains(worksheet.s, "!")

\* The constructor was given keyword first before keyword second.
GivenInOrder(first, second) ==
    \E i, j \in DOMAIN last.kw :
        i < j /\ last.kw[i].k = first /\ last.kw[j].k = second

\* C20: a sheet id is stored only by a successful sheet_id() or url() and
\* a worksheet only by a successful worksheet(), as calls or as keywords of
\* the constructor in their order; worksheet() returns only when a sheet
\* id is stored, range() only when a worksheet is stored whose name holds
\* no "!"; without the sheet id, worksheet() raises ValueError, and without
\* the worksheet or with a "!" in its name range() raises ValueError, the
\* attributes staying as they were.
C20_SheetSetterOrder ==
    /\ []((last.op = "__init__" /\ alive) =>
            /\ IsSet(sheet._sheet_id) => GivenKeyword("sheet_id")
            /\ IsSet(sheet._worksheet) => GivenInOrder("sheet_id", "worksheet")
            /\ IsSet(sheet._range) =>
                   /\ GivenInOrder("worksheet", "range")
                   /\ ~EmbedsRange(sheet._worksheet))
    /\ [][/\ (~IsSet(sheet._sheet_id) /\ IsSet(sheet'._sheet_id)) =>
                 last'.op \in {"sheet_id", "url"} /\ ret'.exc = "none"
          /\ (~IsSet(sheet._worksheet) /\ IsSet(sheet'._worksheet)) =>
                 last'.op = "worksheet" /\ ret'.exc = "none"
          /\ last'.op = "worksheet" =>
                 IF IsSet(sheet._sheet_id) THEN ret'.exc = "none"
                 ELSE ret' = Raise("ValueError") /\ sheet' = sheet
          /\ last'.op = "range" =>
                 /\ ret'.exc = "none" =>
                        /\ IsSet(sheet._worksheet)
                        /\ ~EmbedsRange(sheet._worksheet)
                 /\ (~IsSet(sheet._worksheet) \/ EmbedsRange(sheet._worksheet))
                        => ret' = Raise("ValueError") /\ sheet' = sheet]_vars

\* range() raised ValueError on a Sheet whose worksheet was stored with a
\* range in its name.
C20_Witness ==
    /\ last.op = "range"
    /\ ret = Raise("ValueError")
    /\ IsSet(sheet._sheet_id)
    /\ EmbedsRange(sheet._worksheet)
    /\ ~IsSet(sheet._range)

\* C21: once schema() and bq() have both been called, the attached BQ
\* object's schema is the Sheet's schema, whichever came first, and a load
\* job of load() carries that schema instead of autodetect.
C21_SchemaReachesAttachedBQ ==
    /\ (/\ alive
        /\ IsSet(sheet._bq)
        /\ IsSet(sheet._schema)
        /\ sheet._schema.ty = "list") => bq._schema = sheet._schema
    /\ (last.op = "load" /\ IsSet(sheet._schema)) =>
           \A i \in CallsOf("load_table_from_json") :
               calls[i].job_config =
                   LoadJobConfigSchema(sheet._schema, bq._format)

\* C22: load() raises ValueError and calls neither the spreadsheet service
\* nor the bigquery client when the worksheet is unset, when no BQ object
\* is attached or when the attached one has no table.
C22_LoadNeedsWorksheetBQTable ==
    (/\ last.op = "load"
     /\ \/ ~IsSet(sheet._worksheet)
        \/ ~IsSet(sheet._bq)
        \/ ~IsSet(bq._table)) => ret = Raise("ValueError") /\ calls = <<>>

\* load() raised ValueError for a Sheet with a worksheet and a BQ object
\* attached that has no table.
C22_Witness ==
    /\ last.op = "load"
    /\ IsSet(sheet._worksheet)
    /\ IsSet(sheet._bq)
    /\ ~IsSet(bq._table)
    /\ ret = Raise("ValueError")

\* load() ran on a Sheet with a worksheet and, if it has one, a range, both
\* strings, and a BQ object that has a table.
LoadRan ==
    /\ last.op = "load"
    /\ IsStr(sheet._worksheet)
    /\ IsSet(sheet._range) => IsStr(sheet._range)
    /\ IsSet(sheet._bq)
    /\ IsSet(bq._table)

\* load() ran and the spreadsheet service gave the same answer, one with
\* values, to each request.
LoadFetched ==
    /\ LoadRan
    /\ Len(calls) >= 2
    /\ calls[1].op = "values_get" /\ calls[1].response.has_values
    /\ calls[2].op = "values_get" /\ calls[2].response = calls[1].response

\* The rows of the answer, the header first.
Fetched == calls[1].response.values

\* word matches ^[a-zA-Z_][a-zA-Z0-9_]*$, for a word without a line end.
MatchesFieldName(word) ==
    LET digits == {"0", "1", "2", "3", "4", "5", "6", "7", "8", "9"}
        letters == IdChars \ (digits \cup {"-"})
    IN /\ Len(word) >= 1
       /\ word[1] \in letters
       /\ \A i \in 2..Len(word) : word[i] \in letters \cup digits

\* s without its leading and trailing whitespace.
Trim(s) ==
    LET ns == {i \in DOMAIN s : ~IsSpace(s[i])}
        lo == CHOOSE i \in ns : \A j \in ns : i <= j
        hi == CHOOSE i \in ns : \A j \in ns : i >= j
    IN IF ns = {} THEN <<>> ELSE SubSeq(s, lo, hi)

\* rec, a sequence of items [k, v], maps the names to the cells paired with
\* them by position, the last cell winning for a name that comes twice.
MapsNamesToCells(rec, names, cells) ==
    LET n == IF Len(names) < Len(cells) THEN Len(names) ELSE Len(cells)
    IN /\ \A x, y \in DOMAIN rec : x # y => rec[x].k # rec[y].k
       /\ {rec[x].k : x \in DOMAIN rec} = {names[j] : j \in 1..n}
       /\ \A x \in DOMAIN rec :
              \E j \in 1..n :
                  /\ names[j] = rec[x].k
                  /\ cells[j] = rec[x].v
                  /\ \A h \in (j + 1)..n : names[h] # names[j]

\* C23: load() on a Sheet without a schema raises ValueError when the
\* answer has no values or an empty header row; when a header cell does
\* not match the pattern of field names it raises ValueError naming the
\* first such cell and submits no load job; otherwise it builds one record
\* per row after the header, in row order, mapping the header names to the
\* row's cells.
C23_LoadWithoutSchema ==
    /\ (/\ LoadRan
        /\ ~IsSet(sheet._schema)) =>
           /\ calls # <<>>
           /\ calls[1].op = "values_get"
           /\ ~calls[1].response.has_values =>
                  /\ ret = Raise("ValueError")
                  /\ CallsOf("load_table_from_json") = {}
    /\ (/\ LoadFetched
        /\ ~IsSet(sheet._schema)) =>
           LET header == Fetched[1]
               bad == {i \in DOMAIN header : ~MatchesFieldName(header[i])}
               first == CHOOSE i \in bad : \A j \in bad : i <= j
               json == sheet._json_to_be_load
           IN IF header = <<>>
              THEN /\ ret = Raise("ValueError")
                   /\ CallsOf("load_table_from_json") = {}
              ELSE IF bad # {}
              THEN /\ ret = [Raise("ValueError") EXCEPT
                                !.msg = StrV(header[first])]
                   /\ CallsOf("load_table_from_json") = {}
              ELSE /\ ret.exc # "ValueError"
                   /\ json.ty = "list"
                   /\ Len(json.l) = Len(Fetched) - 1
                   /\ \A i \in DOMAIN json.l :
                          MapsNamesToCells(json.l[i], header, Fetched[i + 1])
                   /\ \A i \in CallsOf("load_table_from_json") :
                          calls[i].arg = json

\* load() returned on a Sheet without a schema after it built two records
\* from the rows under the header name, age.
C23_Witness ==
    /\ LoadFetched
    /\ ~IsSet(sheet._schema)
    /\ ret = Return("NoneType", 0)
    /\ Fetched[1] = <<Lit.name, Lit.age>>
    /\ Len(sheet._json_to_be_load.l) = 2

\* C24: load() on a Sheet with a schema does not validate the header
\* names; it raises ValueError when the header has not as many cells as
\* the schema has fields; otherwise each row after the header becomes one
\* record whose keys are the schema's field names in order and whose
\* values are the row's cells without leading and trailing whitespace.
C24_LoadWithSchema ==
    (/\ LoadFetched
     /\ IsSet(sheet._schema)
     /\ sheet._schema.ty = "list"
     /\ Fetched[1] # <<>>) =>
        LET names == sheet._schema.l
            json == sheet._json_to_be_load
        IN IF Len(Fetched[1]) # Len(names)
           THEN /\ ret = Raise("ValueError")
                /\ CallsOf("load_table_from_json") = {}
           ELSE /\ ret.exc # "ValueError"
                /\ json.ty = "list"
                /\ Len(json.l) = Len(Fetched) - 1
                /\ \A i \in DOMAIN json.l :
                       LET row == Fetched[i + 1]
                           rec == json.l[i]
                       IN /\ Len(rec) = IF Len(row) < Len(names)
                                        THEN Len(row) ELSE Len(names)
                          /\ \A j \in DOMAIN rec :
                                 /\ rec[j].k = names[j]
                                 /\ rec[j].v = Trim(row[j])

\* load() returned on a Sheet with a schema of two fields after it built a
\* record from a row under a header of two illegal names.
C24_Witness ==
    /\ LoadFetched
    /\ IsSet(sheet._schema)
    /\ sheet._schema.ty = "list"
    /\ Fetched[1] # <<>>
    /\ ~MatchesFieldName(Fetched[1][1])
    /\ ret = Return("NoneType", 0)
    /\ Len(sheet._json_to_be_load.l) = 1

\* C25: load() submits a load job only after an existence check of the
\* same call found the destination table missing, and when the check finds
\* the table load() raises Conflict and submits no load job.
C25_LoadNeverOverwrites ==
    last.op = "load" =>
        /\ \A i \in CallsOf("load_table_from_json") :
               \E j \in 1..(i - 1) :
                   /\ calls[j].op = "get_table"
                   /\ calls[j].table = bq.__table_id
                   /\ calls[j].exc = "NotFound"
        /\ (\E j \in CallsOf("get_table") : calls[j].exc = "none") =>
               /\ ret = Raise("Conflict")
               /\ CallsOf("load_table_from_json") = {}

\* load() raised Conflict after the existence check found the table of the
\* attached BQ object.
C25_Witness ==
    /\ LoadFetched
    /\ ret = Raise("Conflict")
    /\ \E j \in CallsOf("get_table") :
           calls[j].exc = "none" /\ calls[j].table = bq.__table_id

\* The calls that reach a service: bucket() and blob() of the storage
\* client only build an object.
NetworkCalls == {i \in DOMAIN calls : calls[i].op \notin {"bucket", "blob"}}

\* The call ended with ValueError before any call reached a service.
FailedFast == ret = Raise("ValueError") /\ NetworkCalls = {}

\* C26: an action called while a setting it reads was never set raises
\* ValueError and makes no network call: query() without sql; upload() and
\* download() without local, bucket or prefix; GCS.delete() without
\* bucket; truncate(), BQ.delete() and is_exist() without table.
C26_UnsetKeyFailsFast ==
    /\ (alive /\ bq # NoObject) =>
           /\ (last.op = "query" /\ ~IsSet(bq._sql)) => FailedFast
           /\ (/\ last.op \in {"truncate", "delete", "is_exist"}
               /\ ~IsSet(bq._table)) => FailedFast
    /\ (alive /\ gcs # NoGCS) =>
           /\ (/\ last.op \in {"upload", "download"}
               /\ \/ ~IsSet(gcs._local)
                  \/ ~IsSet(gcs._bucket)
                  \/ ~IsSet(gcs._prefix)) => FailedFast
           /\ (last.op = "delete" /\ ~IsSet(gcs._bucket)) => FailedFast

\* The value the caller gave for the keyword k of the last call.
LastKw(k) ==
    LET i == CHOOSE i \in DOMAIN last.kw : last.kw[i].k = k
    IN last.kw[i].v

\* C27: create_dataset(name, location, timeout) makes one create_dataset
\* call of the client for the dataset project.name with the given location
\* and the given timeout, and delete_dataset(name) one delete_dataset call
\* for project.name that deletes the contents and tolerates a dataset not
\* found, both with or without a table.
C27_DatasetCallsPassArguments ==
    /\ last.op = "create_dataset" =>
           /\ Len(calls) = 1
           /\ calls[1].op = "create_dataset"
           /\ calls[1].dataset_id =
                  StrV(bq._project.s \o <<".">> \o last.arg.s)
           /\ calls[1].location = LastKw("location")
           /\ calls[1].timeout = LastKw("timeout")
    /\ last.op = "delete_dataset" =>
           /\ Len(calls) = 1
           /\ calls[1].op = "delete_dataset"
           /\ calls[1].dataset_id =
                  StrV(bq._project.s \o <<".">> \o last.arg.s)
           /\ calls[1].not_found_ok
           /\ ret = Return("NoneType", 0)

\* How many characters "!" a range sent to the spreadsheet service holds.
Bangs(range) == Cardinality({i \in DOMAIN range : range[i] = "!"})

\* C28: a stored range and a stored worksheet name holding "!" never
\* coexist, so no range sent to the spreadsheet service holds "!" twice.
C28_RangeExcludesEmbeddedRange ==
    /\ alive => ~(IsSet(sheet._range) /\ EmbedsRange(sheet._worksheet))
    /\ last.op = "load" =>
           \A i \in CallsOf("values_get") : Bangs(calls[i].range.s) <= 1

\* C29: the stored local path and the resolved file list change together,
\* and a local() call that raises ValueError leaves both as they were.
C29_LocalAndFilesChangeTogether ==
    [][/\ (gcs'._local # gcs._local) => last'.op = "local"
       /\ (gcs'._local_files # gcs._local_files) => last'.op = "local"
       /\ (last'.op = "local" /\ ret'.exc = "ValueError") =>
              /\ gcs'._local = gcs._local
              /\ gcs'._local_files = gcs._local_files]_vars

\* C30: a bq() call that raises, for an argument that is no BQ object or
\* for a stored schema the BQ object rejects, leaves the Sheet's attached
\* BQ object as it was, so that none is attached if none was.
C30_FailedBqAttachesNothing ==
    [][(last'.op = "bq" /\ ret'.exc # "none") =>
           sheet'._bq = sheet._bq]_vars

====
